---- MODULE Spec2Model ----
(***************************************************************************)
(* Row-based terrain engine of the dig-downward game                       *)
(* (src/src/game/managers/TerrainManager.ts), modelled as the public API   *)
(* of one TerrainManager: generateInitialChunk, update, clearCurrentRow    *)
(* and handleCreateExplosion, called in any order.                         *)
(*                                                                         *)
(* Row world-Y values are whole pixels.  Entity coordinates are kept in    *)
(* tenths of a pixel so that the fractional offsets of the code (0.9, 0.1, *)
(* 0.8 and 1.2 tile sizes) stay exact integers.                            *)
(***************************************************************************)
EXTENDS Integers, Sequences, FiniteSets, TLC

VARIABLES
    generatedRowsMaxY,  \* the generation frontier (world-Y, pixels)
    rowColliders,       \* Map<number, collider>: row index -> world-Y the collider was placed for
    rowVisuals,         \* Map<number, visual>:   row index -> world-Y the visual was placed for
    rowColliderGroup,   \* live collider objects, counted per "rowY" data value
    rowVisualsGroup,    \* live visual objects, counted per row index
    spikesGroup,        \* sequence of spikes   [x, y, active, health]
    enemiesGroup,       \* sequence of enemies  [x, y, active, health]
    bouldersGroup,      \* sequence of boulders [x, y, active, health]
    coinsGroup,         \* sequence of coins    [x, y, active, health]
    call,               \* the API call that produced this state
    ret,                \* what the last clearCurrentRow call returned
    notified,           \* 'dirt-row-cleared' payloads emitted during the last call
    particles,          \* triggerParticles calls made during the last call
    damageLog,          \* takeDamage calls made during the last call
    clearedRows,        \* history: row indices removed by clearCurrentRow so far
    visited,            \* history: row indices generateRow has been called for
    visitLog,           \* row indices generateRow was called for during the last call
    clearLog,           \* target rows clearCurrentRow ran for during the last call
    columns,            \* iterations of generateRow's column loop during the last call
    player,             \* the Player's fields
    time,               \* scene.time.now, in milliseconds
    registry,           \* the scene registry entries the player reads and writes
    emitted,            \* EventBus events emitted by the player during the last call
    playerClears        \* history: scene times at which the player called clearCurrentRow

vars == <<generatedRowsMaxY, rowColliders, rowVisuals, rowColliderGroup,
          rowVisualsGroup, spikesGroup, enemiesGroup, bouldersGroup, coinsGroup,
          call, ret, notified, particles, damageLog, clearedRows, visited, visitLog,
          clearLog, columns, player, time, registry, emitted, playerClears>>

playerVars == <<player, time, registry, emitted, playerClears>>

(***************************************************************************)
(* Program constants                                                       *)
(***************************************************************************)
TILE_SIZE == 16
mapWidthTiles == 25
mapHeightTiles == 500
initialPlatformRows == 5
initialClearRows == 3
initialWorldDepthRows == 20
mapWidthPixels == mapWidthTiles * TILE_SIZE

(***************************************************************************)
(* Bounds of the model                                                     *)
(***************************************************************************)
MaxRow == 29        \* deepest row index the inputs let the generator reach
MaxEntities == 5    \* no spawn draw succeeds once this many entities exist

Rows == 0..MaxRow
FirstFreshRow == initialPlatformRows + 1 + initialWorldDepthRows

\* Sub-tile offsets of the camera values fed to update (0 = tile-aligned).
SubTileOffsets == {0, TILE_SIZE \div 2}

\* The spawn draws that may succeed, as <<row, column, kind>>: content for the
\* first two rows under the initial chunk, around the middle column.
MidCol == mapWidthTiles \div 2
Pack == {<<FirstFreshRow, MidCol, "spike">>,
         <<FirstFreshRow, MidCol - 1, "boulder">>,
         <<FirstFreshRow + 1, MidCol + 1, "spike">>,
         <<FirstFreshRow + 1, MidCol - 1, "enemy">>,
         <<FirstFreshRow + 1, MidCol + 2, "coin">>}

(***************************************************************************)
(* Helpers                                                                 *)
(***************************************************************************)
Px(p) == p * 10                      \* pixels -> tenths of a pixel
Abs(v) == IF v < 0 THEN -v ELSE v
Floor(a, b) == a \div b              \* Math.floor(a / b), b > 0
Ceil(a, b) == -((-a) \div b)         \* Math.ceil(a / b), b > 0
Put(f, k, v) == [x \in DOMAIN f \cup {k} |-> IF x = k THEN v ELSE f[x]]
Drop(f, k) == [x \in DOMAIN f \ {k} |-> f[x]]
Count(g, k) == IF k \in DOMAIN g THEN g[k] ELSE 0
GroupAdd(g, k) == Put(g, k, Count(g, k) + 1)
GroupRemove(g, k) == IF Count(g, k) <= 1 THEN Drop(g, k) ELSE Put(g, k, g[k] - 1)

\* The manager's state as one value, threaded through the calls a handler makes.
World == [generatedRowsMaxY |-> generatedRowsMaxY,
          rowColliders |-> rowColliders, rowVisuals |-> rowVisuals,
          rowColliderGroup |-> rowColliderGroup, rowVisualsGroup |-> rowVisualsGroup,
          spikesGroup |-> spikesGroup, enemiesGroup |-> enemiesGroup,
          bouldersGroup |-> bouldersGroup, coinsGroup |-> coinsGroup,
          ret |-> ret, notified |-> <<>>, particles |-> 0, damageLog |-> <<>>,
          clearedRows |-> clearedRows, visited |-> visited, visitLog |-> <<>>,
          clearLog |-> <<>>, columns |-> 0]

CommitTerrain(w, c) ==
    /\ generatedRowsMaxY' = w.generatedRowsMaxY
    /\ rowColliders' = w.rowColliders
    /\ rowVisuals' = w.rowVisuals
    /\ rowColliderGroup' = w.rowColliderGroup
    /\ rowVisualsGroup' = w.rowVisualsGroup
    /\ spikesGroup' = w.spikesGroup
    /\ enemiesGroup' = w.enemiesGroup
    /\ bouldersGroup' = w.bouldersGroup
    /\ coinsGroup' = w.coinsGroup
    /\ ret' = w.ret
    /\ notified' = w.notified
    /\ particles' = w.particles
    /\ damageLog' = w.damageLog
    /\ clearedRows' = w.clearedRows
    /\ visited' = w.visited
    /\ visitLog' = w.visitLog
    /\ clearLog' = w.clearLog
    /\ columns' = w.columns
    /\ call' = c

\* a call on the terrain manager: the player is not involved
Commit(w, c) == CommitTerrain(w, c) /\ UNCHANGED playerVars

(***************************************************************************)
(* Entities.  Boulder, Enemy, Spike and Coin are external collaborators;   *)
(* the engine needs their position, active flag and takeDamage.            *)
(***************************************************************************)
spikeHealth == 1
enemyHealth == 1
boulderHealth == 3

Entity(x, y, h) == [x |-> x, y |-> y, active |-> TRUE, health |-> h]

\* takeDamage(amount): health drops, the entity dies (inactive) at zero.
TakeDamage(e, amount) ==
    LET h == IF e.health > amount THEN e.health - amount ELSE 0
    IN [e EXCEPT !.health = h, !.active = (h > 0)]

\* Spike constructor: super(scene, x + TILE_SIZE / 2, y + TILE_SIZE, "spikes").
SpikeAt(x, y) == Entity(Px(x) + Px(TILE_SIZE) \div 2, Px(y + TILE_SIZE), spikeHealth)

\* The point of a child's body the occupancy scan compares with the spawn point.
HasBody(e) == e.active
BodyRefX(e) == e.x
BodyRefY(e) == e.y

(***************************************************************************)
(* generateRow(worldY, forceGenerate)                                      *)
(***************************************************************************)
TileOf(worldY) == Floor(worldY, TILE_SIZE)

\* offsets of generateRow, in tenths of a pixel
colliderYOffset == (9 * Px(TILE_SIZE)) \div 10
colliderHeight == Px(TILE_SIZE) \div 10
checkRadius == (8 * Px(TILE_SIZE)) \div 10
spawnSurfaceY(worldY) == Px(worldY) + colliderYOffset - colliderHeight \div 2
spikeSpawnY(worldY) == worldY
spawnWorldX(tileX) == Px(tileX * TILE_SIZE) + Px(TILE_SIZE) \div 2

\* mutant: a child blocks the position whether or not it still has a body
Near_AnyChild(e, sx, sy) ==
    /\ Abs(BodyRefX(e) - sx) < checkRadius
    /\ Abs(BodyRefY(e) - sy) < checkRadius

Near(e, sx, sy) ==
    /\ HasBody(e)
    /\ Abs(BodyRefX(e) - sx) < checkRadius
    /\ Abs(BodyRefY(e) - sy) < checkRadius

AnyNear(group, sx, sy) == \E i \in 1..Len(group) : Near(group[i], sx, sy)

\* the occupancy scan over groupsToCheck
spaceOccupied(w, sx, sy) ==
    \/ AnyNear(w.bouldersGroup, sx, sy)
    \/ AnyNear(w.enemiesGroup, sx, sy)
    \/ AnyNear(w.spikesGroup, sx, sy)
    \/ AnyNear(w.coinsGroup, sx, sy)

\* Generation parameters.  Chances are in thousandths (0.03 is 30), speeds in
\* pixels per second, the speed gained per row in tenths of one (0.5 is 5).
boulderSpawnChanceBase == 30
enemySpawnChanceBase == 8
spikeSpawnChanceBase == 30
coinSpawnChanceBase == 5
difficultyScaleFactor == 3
baseEnemySpeed == 30
enemySpeedDepthScale == 5

Max(a, b) == IF a >= b THEN a ELSE b
Min(a, b) == IF a <= b THEN a ELSE b

\* "Rows below platform"
depthInRows(tileY) == tileY - (initialPlatformRows + 1)
depthFactor(tileY) == Max(0, depthInRows(tileY)) * difficultyScaleFactor

\* the four current chances, in thousandths
currentBoulderChance(tileY) == boulderSpawnChanceBase + depthFactor(tileY)
currentEnemyChance(tileY) == enemySpawnChanceBase + depthFactor(tileY)
currentSpikeChance(tileY) == spikeSpawnChanceBase + depthFactor(tileY)
currentCoinChance(tileY) == coinSpawnChanceBase + depthFactor(tileY)
currentChance(tileY, kind) ==
    CASE kind = "boulder" -> currentBoulderChance(tileY)
      [] kind = "enemy" -> currentEnemyChance(tileY)
      [] kind = "spike" -> currentSpikeChance(tileY)
      [] kind = "coin" -> currentCoinChance(tileY)

\* mutant: the speed is not capped
currentEnemySpeed_Uncapped(tileY) ==
    Px(baseEnemySpeed) + depthInRows(tileY) * enemySpeedDepthScale

\* the speed given to the enemies of a row, in tenths of a pixel per second
currentEnemySpeed(tileY) ==
    Min(Px(100), Px(baseEnemySpeed) + depthInRows(tileY) * enemySpeedDepthScale)

\* new Enemy(scene, x, y) followed by setSpeed(speed)
EnemyAt(x, y, speed) ==
    [x |-> x, y |-> y, active |-> TRUE, health |-> enemyHealth, speed |-> speed]

\* Math.random() < chance.  Math.random() is in [0, 1): the draw succeeds
\* whatever it gives when the chance has reached 1; below that, rolls is the
\* set of <<row, column, kind>> whose draw comes out under the chance.
Roll(rolls, tileY, tileX, kind) ==
    \/ currentChance(tileY, kind) >= 1000
    \/ (currentChance(tileY, kind) > 0 /\ <<tileY, tileX, kind>> \in rolls)

\* mutant: the coin draw is taken whatever the three draws before it gave
SpawnCell_CoinRegardless(w, worldY, tileY, tileX, rolls) ==
    LET sx == spawnWorldX(tileX)
        sy == spawnSurfaceY(worldY)
        above == sy - Px(TILE_SIZE) \div 2
        n == IF Roll(rolls, tileY, tileX, "boulder")
                THEN [w EXCEPT !.bouldersGroup = Append(@, Entity(sx, above, boulderHealth))]
             ELSE IF Roll(rolls, tileY, tileX, "enemy")
                THEN [w EXCEPT !.enemiesGroup =
                          Append(@, EnemyAt(sx, above, currentEnemySpeed(tileY)))]
             ELSE IF Roll(rolls, tileY, tileX, "spike")
                THEN [w EXCEPT !.spikesGroup =
                          Append(@, SpikeAt((sx - Px(TILE_SIZE) \div 2) \div 10,
                                            spikeSpawnY(worldY) + 10))]
             ELSE w
    IN  IF spaceOccupied(w, sx, sy) THEN w
        ELSE IF Roll(rolls, tileY, tileX, "coin")
            THEN [n EXCEPT !.coinsGroup = Append(@, Entity(sx, above, 1))]
        ELSE n

\* one iteration of the column loop
SpawnCell(w, worldY, tileY, tileX, rolls) ==
    LET sx == spawnWorldX(tileX)
        sy == spawnSurfaceY(worldY)
        above == sy - Px(TILE_SIZE) \div 2
    IN  IF spaceOccupied(w, sx, sy) THEN w
        ELSE IF Roll(rolls, tileY, tileX, "boulder")
            THEN [w EXCEPT !.bouldersGroup = Append(@, Entity(sx, above, boulderHealth))]
        ELSE IF Roll(rolls, tileY, tileX, "enemy")
            THEN [w EXCEPT !.enemiesGroup =
                      Append(@, EnemyAt(sx, above, currentEnemySpeed(tileY)))]
        ELSE IF Roll(rolls, tileY, tileX, "spike")
            THEN [w EXCEPT !.spikesGroup =
                      Append(@, SpikeAt((sx - Px(TILE_SIZE) \div 2) \div 10,
                                        spikeSpawnY(worldY) + 10))]
        ELSE IF Roll(rolls, tileY, tileX, "coin")
            THEN [w EXCEPT !.coinsGroup = Append(@, Entity(sx, above, 1))]
        ELSE w

\* mutant: the loop runs one column past the row's width
RECURSIVE SpawnColumns_OnePastWidth(_, _, _, _, _)
SpawnColumns_OnePastWidth(w, worldY, tileY, tileX, rolls) ==
    IF tileX > mapWidthTiles THEN w
    ELSE LET n == SpawnCell([w EXCEPT !.columns = @ + 1], worldY, tileY, tileX, rolls)
         IN IF n.particles < 0 THEN n
            ELSE SpawnColumns_OnePastWidth(n, worldY, tileY, tileX + 1, rolls)

RECURSIVE SpawnColumns(_, _, _, _, _)
SpawnColumns(w, worldY, tileY, tileX, rolls) ==
    IF tileX >= mapWidthTiles THEN w
    ELSE LET n == SpawnCell([w EXCEPT !.columns = @ + 1], worldY, tileY, tileX, rolls)
         IN IF n.particles < 0 THEN n
            ELSE SpawnColumns(n, worldY, tileY, tileX + 1, rolls)

\* mutant: the rowColliders.has(tileY) test is left out
RowRejected_NoHasCheck(w, tileY) ==
    tileY < 0 \/ tileY >= mapHeightTiles

\* mutant: the lower end of the map is not checked
RowRejected_NoDepthLimit(w, tileY) ==
    tileY < 0 \/ tileY \in DOMAIN w.rowColliders

\* "Out of bounds or already generated"
RowRejected(w, tileY) ==
    tileY < 0 \/ tileY >= mapHeightTiles \/ tileY \in DOMAIN w.rowColliders

\* "Skip generation above initial platform unless forced"
AbovePlatformSkip(tileY, forceGenerate) ==
    ~forceGenerate /\ tileY <= initialPlatformRows

\* collider and visual are created, added to their groups and registered
Materialize(w, tileY, worldY) ==
    [w EXCEPT !.rowColliderGroup = GroupAdd(@, tileY),
              !.rowColliders = Put(@, tileY, worldY),
              !.rowVisualsGroup = GroupAdd(@, tileY),
              !.rowVisuals = Put(@, tileY, worldY)]

\* mutant: content is spawned on every row that is materialized
GenerateRow_SpawnOnPlatform(w, worldY, forceGenerate, rolls) ==
    LET tileY == TileOf(worldY)
        v == [w EXCEPT !.visited = @ \cup {tileY}, !.visitLog = Append(@, tileY)]
    IN  IF RowRejected(w, tileY) THEN v
        ELSE IF AbovePlatformSkip(tileY, forceGenerate) THEN v
        ELSE SpawnColumns(Materialize(v, tileY, worldY), worldY, tileY, 0, rolls)

GenerateRow(w, worldY, forceGenerate, rolls) ==
    LET tileY == TileOf(worldY)
        v == [w EXCEPT !.visited = @ \cup {tileY}, !.visitLog = Append(@, tileY)]
    IN  IF RowRejected(w, tileY) THEN v
        ELSE IF AbovePlatformSkip(tileY, forceGenerate) THEN v
        ELSE LET m == Materialize(v, tileY, worldY)
             IN IF tileY <= initialPlatformRows THEN m
                ELSE SpawnColumns(m, worldY, tileY, 0, rolls)

\* for (let y = startY; y < endY; y += TILE_SIZE) generateRow(y), optionally
\* only for y at or below minY
RECURSIVE GenerateLoop(_, _, _, _, _)
GenerateLoop(w, y, endY, minY, rolls) ==
    IF y >= endY THEN w
    ELSE LET n == IF y >= minY THEN GenerateRow(w, y, FALSE, rolls) ELSE w
         IN IF n.particles < 0 THEN n
            ELSE GenerateLoop(n, y + TILE_SIZE, endY, minY, rolls)

(***************************************************************************)
(* generateInitialChunk()                                                  *)
(***************************************************************************)
\* mutant: the forced platform row is computed one row too high
platformWorldY_RowAbove == (initialPlatformRows - 1) * TILE_SIZE

platformWorldY == initialPlatformRows * TILE_SIZE

\* mutant: the loop also generates the row at endY
InitialChunk_InclusiveEnd(w, rolls) ==
    LET p == GenerateRow(w, platformWorldY, TRUE, rolls)
        startY == (initialPlatformRows + 1) * TILE_SIZE
        endY == startY + initialWorldDepthRows * TILE_SIZE
        g == GenerateLoop(p, startY, endY + TILE_SIZE, startY, rolls)
    IN [g EXCEPT !.generatedRowsMaxY = endY]

InitialChunk(w, rolls) ==
    LET p == GenerateRow(w, platformWorldY, TRUE, rolls)
        startY == (initialPlatformRows + 1) * TILE_SIZE
        endY == startY + initialWorldDepthRows * TILE_SIZE
        g == GenerateLoop(p, startY, endY, startY, rolls)
    IN [g EXCEPT !.generatedRowsMaxY = endY]

(***************************************************************************)
(* update(cameraBottomY)                                                   *)
(***************************************************************************)
\* mutant: rows are generated up to the camera's lower edge only
generationThreshold_AtCamera(cameraBottomY) == cameraBottomY

generationThreshold(cameraBottomY) == cameraBottomY + TILE_SIZE * 10

NaturalStartY == (initialPlatformRows + 1) * TILE_SIZE

\* mutant: the threshold is not compared with the frontier
UpdateWorld_Unguarded(w, cameraBottomY, rolls) ==
    LET endY == generationThreshold(cameraBottomY)
    IN  [GenerateLoop(w, w.generatedRowsMaxY, endY, NaturalStartY, rolls)
            EXCEPT !.generatedRowsMaxY = endY]

UpdateWorld(w, cameraBottomY, rolls) ==
    LET endY == generationThreshold(cameraBottomY)
    IN  IF endY > w.generatedRowsMaxY
        THEN [GenerateLoop(w, w.generatedRowsMaxY, endY, NaturalStartY, rolls)
                EXCEPT !.generatedRowsMaxY = endY]
        ELSE w

(***************************************************************************)
(* clearCurrentRow(triggerWorldY)                                          *)
(***************************************************************************)
\* mutant: the trigger is rounded up to the next row boundary
playerRowYBelow_RoundedUp(triggerWorldY) == Ceil(triggerWorldY, TILE_SIZE)

\* mutant: the row of the trigger point itself, not the one below it
playerRowYBelow_SameRow(triggerWorldY) == Floor(triggerWorldY, TILE_SIZE)

playerRowYBelow(triggerWorldY) == Floor(triggerWorldY, TILE_SIZE) + 1
playerCurrentRow(triggerWorldY) == playerRowYBelow(triggerWorldY) - 1
targetTileY(triggerWorldY) == playerRowYBelow(triggerWorldY)

\* mutant: the range check has lost its lower bound
SpikeInRange_NoLowerBound(spike, rowAboveWorldY) ==
    spike.y < Px(rowAboveWorldY) + (12 * Px(TILE_SIZE)) \div 10

\* the "simple Y range check" on a spike, rowAboveWorldY in pixels
SpikeInRange(spike, rowAboveWorldY) ==
    /\ spike.y > Px(rowAboveWorldY)
    /\ spike.y < Px(rowAboveWorldY) + (12 * Px(TILE_SIZE)) \div 10

\* mutant: the active flag of the spike is not looked at
SpikeHit_WhateverItsState(spike, rowAboveWorldY) == SpikeInRange(spike, rowAboveWorldY)

SpikeHit(spike, rowAboveWorldY) == spike.active /\ SpikeInRange(spike, rowAboveWorldY)

Hurt(kind, i, amount) == [kind |-> kind, idx |-> i, amount |-> amount]

\* forEach over a group, from child i on: the children whose index is in hits
\* take damage, in order
RECURSIVE DamageEach(_, _, _, _, _)
DamageEach(group, hits, amount, kind, i) ==
    IF i > Len(group) THEN [group |-> group, log |-> <<>>]
    ELSE LET rest == DamageEach(group, hits, amount, kind, i + 1)
         IN IF i \in hits
            THEN [group |-> [rest.group EXCEPT ![i] = TakeDamage(@, amount)],
                  log |-> <<Hurt(kind, i, amount)>> \o rest.log]
            ELSE rest

\* the two particle loops over the row width
RowParticles == mapWidthTiles + mapWidthTiles

\* mutant: the visual is left in its group and its map
RemoveRow_KeepVisual(w, tileY) ==
    [w EXCEPT !.rowColliderGroup = GroupRemove(@, tileY),
              !.rowColliders = Drop(@, tileY)]

\* mutant: the row above the target is removed along with it
RemoveRow_AndRowAbove(w, tileY) ==
    [w EXCEPT !.rowColliderGroup = GroupRemove(GroupRemove(@, tileY), tileY - 1),
              !.rowColliders = Drop(Drop(@, tileY), tileY - 1),
              !.rowVisualsGroup = GroupRemove(GroupRemove(@, tileY), tileY - 1),
              !.rowVisuals = Drop(Drop(@, tileY), tileY - 1)]

\* removal of the collider and of the visual, each from its group and its map
RemoveRow(w, tileY) ==
    LET c == [w EXCEPT !.rowColliderGroup = GroupRemove(@, tileY),
                       !.rowColliders = Drop(@, tileY)]
    IN IF tileY \in DOMAIN w.rowVisuals
       THEN [c EXCEPT !.rowVisualsGroup = GroupRemove(@, tileY),
                      !.rowVisuals = Drop(@, tileY)]
       ELSE c

ClearSpikes(w, rowAboveWorldY) ==
    LET hits == {i \in 1..Len(w.spikesGroup) : SpikeHit(w.spikesGroup[i], rowAboveWorldY)}
        d == DamageEach(w.spikesGroup, hits, 1, "spike", 1)
    IN [w EXCEPT !.spikesGroup = d.group, !.damageLog = @ \o d.log]

\* mutant: the spikes of the row above are cleared before the collider is
\* looked up, so also when there is no row to clear
ClearCurrentRow_SpikesRegardless(w, triggerWorldY) ==
    LET t == targetTileY(triggerWorldY)
        s == ClearSpikes(w, playerCurrentRow(triggerWorldY) * TILE_SIZE)
    IN  IF t \in DOMAIN w.rowColliders
        THEN [RemoveRow(s, t)
                EXCEPT !.particles = @ + RowParticles,
                       !.notified = Append(@, t),
                       !.clearedRows = @ \cup {t},
                       !.clearLog = Append(@, t),
                       !.ret = TRUE]
        ELSE [s EXCEPT !.clearLog = Append(@, t), !.ret = FALSE]

\* mutant: the notification is emitted whether or not a row was removed
ClearCurrentRow_NotifyWithoutRow(w, triggerWorldY) ==
    LET t == targetTileY(triggerWorldY)
        rowAboveWorldY == playerCurrentRow(triggerWorldY) * TILE_SIZE
    IN  IF t \in DOMAIN w.rowColliders
        THEN [ClearSpikes(RemoveRow(w, t), rowAboveWorldY)
                EXCEPT !.particles = @ + RowParticles,
                       !.notified = Append(@, t),
                       !.clearedRows = @ \cup {t},
                       !.clearLog = Append(@, t),
                       !.ret = TRUE]
        ELSE [w EXCEPT !.notified = Append(@, t),
                       !.clearLog = Append(@, t), !.ret = FALSE]

ClearCurrentRow(w, triggerWorldY) ==
    LET t == targetTileY(triggerWorldY)
        rowAboveWorldY == playerCurrentRow(triggerWorldY) * TILE_SIZE
    IN  IF t \in DOMAIN w.rowColliders
        THEN [ClearSpikes(RemoveRow(w, t), rowAboveWorldY)
                EXCEPT !.particles = @ + RowParticles,
                       !.notified = Append(@, t),
                       !.clearedRows = @ \cup {t},
                       !.clearLog = Append(@, t),
                       !.ret = TRUE]
        ELSE [w EXCEPT !.clearLog = Append(@, t), !.ret = FALSE]

(***************************************************************************)
(* handleCreateExplosion({worldX, worldY, radius})                         *)
(***************************************************************************)
\* mutant: the candidate rows reach floor(radius / TILE_SIZE) rows from the centre
tileRadius_RoundedDown(radius) == Floor(radius, TILE_SIZE)

tileRadius(radius) == Ceil(radius, TILE_SIZE)

\* mutant: the vertical distance is taken to the row's top, not to its centre
RowInBlast_FromRowTop(worldX, worldY, radius, t) ==
    LET yDist == worldY - t * TILE_SIZE
        xDist == worldX - mapWidthPixels \div 2
        checkRadiusSq == radius * radius
                         + (mapWidthPixels \div 2) * (mapWidthPixels \div 2)
    IN  /\ ~(yDist * yDist > radius * radius)
        /\ xDist * xDist + yDist * yDist <= checkRadiusSq

\* the row tests of the clearing loop, for row index t
RowInBlast(worldX, worldY, radius, t) ==
    LET yDist == worldY - (t * TILE_SIZE + TILE_SIZE \div 2)
        xDist == worldX - mapWidthPixels \div 2
        checkRadiusSq == radius * radius
                         + (mapWidthPixels \div 2) * (mapWidthPixels \div 2)
    IN  /\ ~(yDist * yDist > radius * radius)
        /\ xDist * xDist + yDist * yDist <= checkRadiusSq

\* mutant: the clearer is handed the top of the tested row as its trigger
RECURSIVE BlastRows_TriggerAtRowTop(_, _, _, _, _)
BlastRows_TriggerAtRowTop(w, worldX, worldY, radius, dy) ==
    IF dy > tileRadius(radius) THEN w
    ELSE LET t == Floor(worldY, TILE_SIZE) + dy
             n == IF RowInBlast(worldX, worldY, radius, t)
                  THEN ClearCurrentRow(w, t * TILE_SIZE)
                  ELSE w
         IN IF n.particles < 0 THEN n
            ELSE BlastRows_TriggerAtRowTop(n, worldX, worldY, radius, dy + 1)

RECURSIVE BlastRows(_, _, _, _, _)
BlastRows(w, worldX, worldY, radius, dy) ==
    IF dy > tileRadius(radius) THEN w
    ELSE LET t == Floor(worldY, TILE_SIZE) + dy
             rowWorldY == t * TILE_SIZE
             n == IF RowInBlast(worldX, worldY, radius, t)
                  THEN ClearCurrentRow(w, rowWorldY - TILE_SIZE \div 2)
                  ELSE w
         IN IF n.particles < 0 THEN n
            ELSE BlastRows(n, worldX, worldY, radius, dy + 1)

\* mutant: the distance test is made per axis (a square instead of a circle)
InBlast_PerAxis(e, worldX, worldY, radius) ==
    /\ Abs(Px(worldX) - e.x) <= Px(radius)
    /\ Abs(Px(worldY) - e.y) <= Px(radius)

\* Phaser.Math.Distance.Squared(...) <= radiusSq, entity coordinates in tenths
InBlast(e, worldX, worldY, radius) ==
    (Px(worldX) - e.x) * (Px(worldX) - e.x) + (Px(worldY) - e.y) * (Px(worldY) - e.y)
        <= Px(radius) * Px(radius)

BlastEntities(w, worldX, worldY, radius) ==
    LET hits(group) == {i \in 1..Len(group) :
                            group[i].active /\ InBlast(group[i], worldX, worldY, radius)}
        en == DamageEach(w.enemiesGroup, hits(w.enemiesGroup), 999, "enemy", 1)
        sp == DamageEach(w.spikesGroup, hits(w.spikesGroup), 1, "spike", 1)
        bo == DamageEach(w.bouldersGroup, hits(w.bouldersGroup), 3, "boulder", 1)
    IN [w EXCEPT !.enemiesGroup = en.group,
                 !.spikesGroup = sp.group,
                 !.bouldersGroup = bo.group,
                 !.damageLog = @ \o en.log \o sp.log \o bo.log]

\* mutant: the entities are damaged only when the row pass cleared a row
HandleCreateExplosion_DamageAfterClear(w, worldX, worldY, radius) ==
    LET b == BlastRows(w, worldX, worldY, radius, -tileRadius(radius))
    IN IF b.notified = <<>> THEN b ELSE BlastEntities(b, worldX, worldY, radius)

HandleCreateExplosion(w, worldX, worldY, radius) ==
    BlastEntities(BlastRows(w, worldX, worldY, radius, -tileRadius(radius)),
                  worldX, worldY, radius)

(***************************************************************************)
(* Inputs                                                                  *)
(***************************************************************************)
\* camera values: thresholds off the tile grid, and the deepest one on it
CameraRows == {FirstFreshRow, FirstFreshRow + 2}
CameraYs ==
    {r * TILE_SIZE + o - TILE_SIZE * 10 : r \in CameraRows, o \in SubTileOffsets \ {0}}
    \cup {(MaxRow + 1) * TILE_SIZE - TILE_SIZE * 10}

\* rows a dig is aimed at: the deepest two; the trigger lies half a tile above
\* the target's top
DigRows == (MaxRow - 1)..MaxRow
TriggerYs == {n * TILE_SIZE - TILE_SIZE \div 2 : n \in DigRows}

BlastCentres == {(MaxRow - 1) * TILE_SIZE + TILE_SIZE \div 2}
BlastRadii == {TILE_SIZE \div 2, TILE_SIZE + TILE_SIZE \div 2}

NumEntities == Len(spikesGroup) + Len(enemiesGroup) + Len(bouldersGroup) + Len(coinsGroup)

\* the draws that succeed during one call: none of them, or those of Pack
RollChoices == {{}} \cup (IF NumEntities < MaxEntities THEN {Pack} ELSE {})

(***************************************************************************)
(* State machine                                                           *)
(***************************************************************************)
Called(op, arg) == [op |-> op, arg |-> arg]

\* invulnerabilityTimer === undefined
NoTimer == -1

\* new Player(...) in Game.create, and the registry entries set after it
PlayerInit ==
    /\ player = [active |-> TRUE, bodyEnabled |-> TRUE, isInvulnerable |-> FALSE,
                 invulnerabilityTimer |-> NoTimer, lastDigTime |-> 0,
                 velocity |-> <<0, 0>>, recentBoulderCollisions |-> <<>>,
                 ret |-> FALSE]
    /\ time = 0
    /\ registry = [lives |-> 3, coins |-> 0, totalCoinsCollected |-> 0]
    /\ emitted = <<>>
    /\ playerClears = {}

\* the constructor
Init ==
    /\ PlayerInit
    /\ generatedRowsMaxY = initialClearRows * TILE_SIZE
    /\ rowColliders = <<>>
    /\ rowVisuals = <<>>
    /\ rowColliderGroup = <<>>
    /\ rowVisualsGroup = <<>>
    /\ spikesGroup = <<>>
    /\ enemiesGroup = <<>>
    /\ bouldersGroup = <<>>
    /\ coinsGroup = <<>>
    /\ call = Called("constructor", <<>>)
    /\ ret = FALSE
    /\ notified = <<>>
    /\ particles = 0
    /\ damageLog = <<>>
    /\ clearedRows = {}
    /\ visited = {}
    /\ visitLog = <<>>
    /\ clearLog = <<>>
    /\ columns = 0

DoGenerateInitialChunk ==
    \E rolls \in RollChoices :
        Commit(InitialChunk(World, rolls), Called("generateInitialChunk", <<>>))

DoUpdate ==
    \E c \in CameraYs, rolls \in RollChoices :
        Commit(UpdateWorld(World, c, rolls), Called("update", <<c>>))

DoClearCurrentRow ==
    \E y \in TriggerYs :
        Commit(ClearCurrentRow(World, y), Called("clearCurrentRow", <<y>>))

BlastXs == {mapWidthPixels \div 2}

DoHandleCreateExplosion ==
    \E x \in BlastXs, y \in BlastCentres, radius \in BlastRadii :
        Commit(HandleCreateExplosion(World, x, y, radius),
               Called("handleCreateExplosion", <<x, y, radius>>))

Next ==
    \/ DoGenerateInitialChunk
    \/ DoUpdate
    \/ DoClearCurrentRow
    \/ DoHandleCreateExplosion

Spec == Init /\ [][Next]_vars

(***************************************************************************)
(* A manager driven row by row: generateRow called directly around the     *)
(* platform and at the vertical bounds of the map, and digs next to the    *)
(* platform (the scenario of tile size 16 and platform row 5).             *)
(***************************************************************************)
\* tops of the row above the platform, of the platform row and of the two rows
\* under it, and tops of rows outside the map: one above row 0, the first one
\* under the last row
RowYs == {r * TILE_SIZE : r \in (initialPlatformRows - 1)..(initialPlatformRows + 2)}
         \cup {-TILE_SIZE, mapHeightTiles * TILE_SIZE}

\* triggers one pixel under the top of the platform row and of the next two
NearTriggers == {r * TILE_SIZE + 1 : r \in initialPlatformRows..(initialPlatformRows + 2)}

\* the draws that may succeed: in the rows under the platform, on the platform
\* row, on the row above it and in rows off the map
NearPack == {<<initialPlatformRows - 1, MidCol, "coin">>,
             <<initialPlatformRows, MidCol, "boulder">>,
             <<initialPlatformRows, MidCol + 2, "spike">>,
             <<initialPlatformRows + 1, MidCol, "spike">>,
             <<initialPlatformRows + 2, MidCol, "enemy">>,
             <<-1, MidCol, "boulder">>,
             <<mapHeightTiles, MidCol, "coin">>}
NearRollChoices == {{}} \cup (IF NumEntities < MaxEntities THEN {NearPack} ELSE {})

DoGenerateRow ==
    \E y \in RowYs, forceGenerate \in BOOLEAN, rolls \in NearRollChoices :
        Commit(GenerateRow(World, y, forceGenerate, rolls),
               Called("generateRow", <<y, forceGenerate>>))

DoClearNearPlatform ==
    \E y \in NearTriggers :
        Commit(ClearCurrentRow(World, y), Called("clearCurrentRow", <<y>>))

NextRows ==
    \/ DoGenerateRow
    \/ DoClearNearPlatform

SpecRows == Init /\ [][NextRows]_vars

(***************************************************************************)
(* A manager whose initial chunk is dug at every pixel height from above   *)
(* row 0 down to the top of the first row under the platform.              *)
(***************************************************************************)
AnyTriggers == (-2 * TILE_SIZE)..((initialPlatformRows + 1) * TILE_SIZE)

DoClearAnywhere ==
    \E y \in AnyTriggers :
        Commit(ClearCurrentRow(World, y), Called("clearCurrentRow", <<y>>))

NextTarget ==
    \/ DoGenerateInitialChunk
    \/ DoClearAnywhere

SpecTarget == Init /\ [][NextTarget]_vars

(***************************************************************************)
(* A manager whose initial chunk holds enemies around row 10 and is hit by *)
(* explosions centred on that row (the scenario of radius 40).             *)
(***************************************************************************)
\* explosions as <<worldX, worldY, radius>>: radius 40 at the world centre of
\* row 10 next to the map's middle, and a smaller one on the map's left edge
\* at the top of row 10
ScenarioBlasts == {<<mapWidthPixels \div 2 - 3, 10 * TILE_SIZE + TILE_SIZE \div 2, 40>>,
                   <<0, 10 * TILE_SIZE, TILE_SIZE + TILE_SIZE \div 2>>}

\* what the initial chunk may spawn: enemies in row 10 at 45.06 and 13.2
\* pixels from the centre (197, 168) and one in row 13 outside the radius, a
\* boulder and a spike in row 11 inside it
BlastPack == {<<10, MidCol - 3, "enemy">>,
              <<10, MidCol - 1, "enemy">>,
              <<13, MidCol, "enemy">>,
              <<11, MidCol - 1, "boulder">>,
              <<11, MidCol, "spike">>}
BlastRollChoices == {{}} \cup (IF NumEntities < MaxEntities THEN {BlastPack} ELSE {})

\* digs in the explosion's band: at its upper and at its lower end
BandTriggers == {8 * TILE_SIZE - TILE_SIZE \div 2, 12 * TILE_SIZE - TILE_SIZE \div 2}

DoChunkWithEnemies ==
    \E rolls \in BlastRollChoices :
        Commit(InitialChunk(World, rolls), Called("generateInitialChunk", <<>>))

DoScenarioExplosion ==
    \E b \in ScenarioBlasts :
        Commit(HandleCreateExplosion(World, b[1], b[2], b[3]),
               Called("handleCreateExplosion", b))

DoClearInBand ==
    \E y \in BandTriggers :
        Commit(ClearCurrentRow(World, y), Called("clearCurrentRow", <<y>>))

NextBlast ==
    \/ DoChunkWithEnemies
    \/ DoScenarioExplosion
    \/ DoClearInBand

SpecBlast == Init /\ [][NextBlast]_vars

(***************************************************************************)
(* A manager that is scrolled while rows inside the view are dug away.     *)
(***************************************************************************)
\* digs aimed at the first row under the platform and at the deepest row
\* whose top is inside the view of every camera value
VisibleTriggers == {NaturalStartY - TILE_SIZE \div 2,
                    (FirstFreshRow - initialPlatformRows - 1) * TILE_SIZE - TILE_SIZE \div 2}

DoClearVisible ==
    \E y \in VisibleTriggers :
        Commit(ClearCurrentRow(World, y), Called("clearCurrentRow", <<y>>))

NextAhead ==
    \/ DoGenerateInitialChunk
    \/ DoUpdate
    \/ DoClearVisible

SpecAhead == Init /\ [][NextAhead]_vars

(***************************************************************************)
(* A manager near the bottom of the map: generateInitialChunk and update   *)
(* have generated rows 5..496 and every one of them has been dug away, the *)
(* last by clearCurrentRow on row 496.  The entities of those rows are     *)
(* left out: the nearest lie more than a tile above every position the     *)
(* rows from 497 on are tested against, and no operation below reads       *)
(* them.  From there the camera moves past the map's last row, and         *)
(* generateRow is called for rows at and beyond both ends of the map.      *)
(***************************************************************************)
BottomStartRow == mapHeightTiles - initialClearRows

InitBottom ==
    /\ PlayerInit
    /\ generatedRowsMaxY = BottomStartRow * TILE_SIZE
    /\ rowColliders = <<>>
    /\ rowVisuals = <<>>
    /\ rowColliderGroup = <<>>
    /\ rowVisualsGroup = <<>>
    /\ spikesGroup = <<>>
    /\ enemiesGroup = <<>>
    /\ bouldersGroup = <<>>
    /\ coinsGroup = <<>>
    /\ call = Called("clearCurrentRow", <<(BottomStartRow - 1) * TILE_SIZE - TILE_SIZE \div 2>>)
    /\ ret = TRUE
    /\ notified = <<BottomStartRow - 1>>
    /\ particles = RowParticles
    /\ damageLog = <<>>
    /\ clearedRows = initialPlatformRows..(BottomStartRow - 1)
    /\ visited = initialPlatformRows..(BottomStartRow - 1)
    /\ visitLog = <<>>
    /\ clearLog = <<BottomStartRow - 1>>
    /\ columns = 0

\* camera values whose thresholds lie before, at and beyond the map's end, on
\* and off the tile grid
BottomCameraYs ==
    {r * TILE_SIZE + o - TILE_SIZE * 10 :
        r \in {mapHeightTiles - 1, mapHeightTiles, mapHeightTiles + 2}, o \in SubTileOffsets}

\* tops of the last row, of the two rows under the map and of the row above
\* row 0, and a point inside that row
BottomRowYs == {(mapHeightTiles - 1) * TILE_SIZE, mapHeightTiles * TILE_SIZE,
                (mapHeightTiles + 1) * TILE_SIZE, -TILE_SIZE, -1}

\* the draws that may succeed: in the last two rows and in rows off the map
BottomPack == {<<mapHeightTiles - 2, MidCol, "enemy">>,
               <<mapHeightTiles - 1, MidCol, "spike">>,
               <<mapHeightTiles, MidCol, "enemy">>,
               <<mapHeightTiles + 1, MidCol, "boulder">>,
               <<-1, MidCol, "coin">>}
BottomRollChoices == {{}} \cup (IF NumEntities < MaxEntities THEN {BottomPack} ELSE {})

\* digs aimed at the last row and at the first row under the map
BottomTriggers == {(mapHeightTiles - 1) * TILE_SIZE - TILE_SIZE \div 2,
                   mapHeightTiles * TILE_SIZE - TILE_SIZE \div 2}

DoUpdatePastBottom ==
    \E c \in BottomCameraYs, rolls \in BottomRollChoices :
        Commit(UpdateWorld(World, c, rolls), Called("update", <<c>>))

DoGenerateRowAtBounds ==
    \E y \in BottomRowYs, forceGenerate \in BOOLEAN, rolls \in BottomRollChoices :
        Commit(GenerateRow(World, y, forceGenerate, rolls),
               Called("generateRow", <<y, forceGenerate>>))

DoClearAtBottom ==
    \E y \in BottomTriggers :
        Commit(ClearCurrentRow(World, y), Called("clearCurrentRow", <<y>>))

NextBottom ==
    \/ DoUpdatePastBottom
    \/ DoGenerateRowAtBounds
    \/ DoClearAtBottom

SpecBottom == InitBottom /\ [][NextBottom]_vars

(***************************************************************************)
(* Properties                                                              *)
(***************************************************************************)
ClearCall(c) == c.op = "clearCurrentRow"
Target(c) == targetTileY(c.arg[1])
Stored(m) == DOMAIN m
SpikeIds == 1..Len(spikesGroup)
AllActive(group) == \A i \in 1..Len(group) : group[i].active

\* C1: a clearCurrentRow whose target row is not in the Row Store returns false
\* and changes nothing: maps, groups, frontier and entities are as before, no
\* spike takes damage, no particle is triggered, no notification is emitted.
C1_IdempotentClear ==
    [][(ClearCall(call') /\ Target(call') \notin Stored(rowColliders)) =>
         /\ ret' = FALSE
         /\ rowColliders' = rowColliders /\ rowVisuals' = rowVisuals
         /\ rowColliderGroup' = rowColliderGroup
         /\ rowVisualsGroup' = rowVisualsGroup
         /\ generatedRowsMaxY' = generatedRowsMaxY
         /\ spikesGroup' = spikesGroup /\ enemiesGroup' = enemiesGroup
         /\ bouldersGroup' = bouldersGroup /\ coinsGroup' = coinsGroup
         /\ damageLog' = <<>> /\ particles' = 0 /\ notified' = <<>>]_vars

\* a refused clear whose row above holds an active spike in the range check
C1_Witness ==
    /\ ClearCall(call) /\ ret = FALSE
    /\ Target(call) \notin Stored(rowColliders)
    /\ \E i \in SpikeIds :
          SpikeHit(spikesGroup[i], playerCurrentRow(call.arg[1]) * TILE_SIZE)

\* C2: clearCurrentRow returns true exactly when its target was in the Row
\* Store just before the call, and after a true return the index is in neither
\* map and no collider or visual object of that row is left alive.
C2_TrueIffStored ==
    [][ClearCall(call') =>
         /\ (ret' = TRUE) <=> (Target(call') \in Stored(rowColliders))
         /\ (ret' = TRUE) =>
               /\ Target(call') \notin Stored(rowColliders')
               /\ Target(call') \notin Stored(rowVisuals')
               /\ Count(rowColliderGroup', Target(call')) = 0
               /\ Count(rowVisualsGroup', Target(call')) = 0]_vars

\* a clear that returned true
C2_Witness ==
    /\ ClearCall(call) /\ ret = TRUE
    /\ Target(call) \in clearedRows
    /\ Target(call) \notin Stored(rowColliders) \cup Stored(rowVisuals)

\* C3: a row index removed by clearCurrentRow is never in the Row Store again.
C3_NeverRegenerated ==
    \A r \in clearedRows : r \notin Stored(rowColliders)

\* C4: the two maps always have the same key set, and every row index has at
\* most one live collider and one live visual: exactly one if stored, else none.
C4_NoDuplicateRows ==
    /\ Stored(rowColliders) = Stored(rowVisuals)
    /\ \A r \in Stored(rowColliderGroup) \cup Stored(rowVisualsGroup) \cup Stored(rowColliders) :
          /\ Count(rowColliderGroup, r) = (IF r \in Stored(rowColliders) THEN 1 ELSE 0)
          /\ Count(rowVisualsGroup, r) = (IF r \in Stored(rowVisuals) THEN 1 ELSE 0)

\* generateInitialChunk ran over rows that were generated already, after a clear
C4_Witness ==
    /\ call.op = "generateInitialChunk"
    /\ clearedRows # {}
    /\ Len(visitLog) = initialWorldDepthRows + 1
    /\ \A i \in 1..Len(visitLog) : visitLog[i] \in Stored(rowColliders)

\* C5: no call makes the generation frontier smaller.
C5_FrontierMonotone ==
    [][generatedRowsMaxY' >= generatedRowsMaxY]_vars

\* C6: an update visits no row generateRow was called for before, and leaves
\* every row under the platform whose top is below the new frontier visited.
C6_VisitedExactlyOnce ==
    [][call'.op = "update" =>
         /\ \A i \in 1..Len(visitLog') : visitLog'[i] \notin visited
         /\ \A i, j \in 1..Len(visitLog') : i # j => visitLog'[i] # visitLog'[j]
         /\ \A r \in Rows :
               (r > initialPlatformRows /\ r * TILE_SIZE < generatedRowsMaxY')
                  => r \in visited']_vars

\* C7: an index at or above the platform row enters the Row Store only as the
\* platform row itself, and only in generateInitialChunk; update adds none.
C7_PlatformExclusion ==
    [][\A r \in Stored(rowColliders') \ Stored(rowColliders) :
          r <= initialPlatformRows =>
             (r = initialPlatformRows /\ call'.op = "generateInitialChunk")]_vars

\* update ran from the constructor's frontier across rows 3..5 and stored none
C7_Witness ==
    /\ call.op = "update"
    /\ initialPlatformRows + 1 \in Stored(rowColliders)
    /\ \A r \in 0..initialPlatformRows : r \notin Stored(rowColliders)

\* C8: a successful clear of row N removes index N from both maps and nothing
\* else: every other stored row and the frontier are as before.
C8_ClearLocalityRows ==
    [][(ClearCall(call') /\ ret' = TRUE) =>
         /\ rowColliders' = Drop(rowColliders, Target(call'))
         /\ rowVisuals' = Drop(rowVisuals, Target(call'))
         /\ rowColliderGroup' = Drop(rowColliderGroup, Target(call'))
         /\ rowVisualsGroup' = Drop(rowVisualsGroup, Target(call'))
         /\ generatedRowsMaxY' = generatedRowsMaxY]_vars

\* a successful clear with the row just above the target still stored
C8_Witness ==
    /\ ClearCall(call) /\ ret = TRUE
    /\ Target(call) - 1 \in Stored(rowColliders)
    /\ Target(call) - 1 \in Stored(rowVisuals)

\* C9: a successful clear of row N damages every active spike whose Y is inside
\* the band of row N-1 and damages no spike whose Y is outside that band.
C9_ClearLocalityHazards ==
    [][(ClearCall(call') /\ ret' = TRUE) =>
         \A i \in SpikeIds :
            LET y == spikesGroup[i].y
                top == Px((Target(call') - 1) * TILE_SIZE)
                bottom == Px(Target(call') * TILE_SIZE)
            IN /\ (spikesGroup[i].active /\ top < y /\ y < bottom)
                    => spikesGroup'[i] # spikesGroup[i]
               /\ spikesGroup'[i] # spikesGroup[i]
                    => (spikesGroup[i].active /\ top <= y /\ y <= bottom)]_vars

\* C10: a successful clear of row N leaves every spike with Y at or above the
\* top of row N-1, and every enemy, boulder and coin, exactly as it was.
C10_HigherHazardsUntouched ==
    [][(ClearCall(call') /\ ret' = TRUE) =>
         /\ \A i \in SpikeIds :
               spikesGroup[i].y <= Px((Target(call') - 1) * TILE_SIZE)
                  => spikesGroup'[i] = spikesGroup[i]
         /\ enemiesGroup' = enemiesGroup
         /\ bouldersGroup' = bouldersGroup
         /\ coinsGroup' = coinsGroup]_vars

\* a successful clear while an active spike sits two rows up and an active
\* enemy, boulder and coin exist
C10_Witness ==
    /\ ClearCall(call) /\ ret = TRUE
    /\ \E i \in SpikeIds :
          /\ spikesGroup[i].active
          /\ spikesGroup[i].y <= Px((Target(call) - 1) * TILE_SIZE)
    /\ Len(enemiesGroup) > 0 /\ AllActive(enemiesGroup)
    /\ Len(bouldersGroup) > 0 /\ AllActive(bouldersGroup)
    /\ Len(coinsGroup) > 0 /\ AllActive(coinsGroup)

(***************************************************************************)
(* Explosion properties                                                    *)
(***************************************************************************)
ExplosionCall(c) == c.op = "handleCreateExplosion"

\* squared Euclidean distance (tenths of a pixel) from entity e to the centre
\* of explosion call c, and the comparison with the call's radius
DistSq(e, c) ==
    (Px(c.arg[1]) - e.x) * (Px(c.arg[1]) - e.x)
        + (Px(c.arg[2]) - e.y) * (Px(c.arg[2]) - e.y)
Beyond(e, c) == DistSq(e, c) > Px(c.arg[3]) * Px(c.arg[3])
Within(e, c) == ~Beyond(e, c)

\* the rows an explosion call removed from the Row Store
RemovedRows == Stored(rowColliders) \ Stored(rowColliders')

\* spike s lies in the Y range clearCurrentRow tests when it clears row t
InClearBand(s, t) ==
    /\ s.y > Px((t - 1) * TILE_SIZE)
    /\ 10 * s.y < 10 * Px((t - 1) * TILE_SIZE) + 12 * Px(TILE_SIZE)

\* C11 (as stated): during handleCreateExplosion an enemy, spike or boulder
\* farther than the radius from the centre is left exactly as it was by the
\* whole call, the row-clearing pass included.
C11_RadiusContainment ==
    [][ExplosionCall(call') =>
         /\ \A i \in 1..Len(enemiesGroup) :
               Beyond(enemiesGroup[i], call') => enemiesGroup'[i] = enemiesGroup[i]
         /\ \A i \in 1..Len(bouldersGroup) :
               Beyond(bouldersGroup[i], call') => bouldersGroup'[i] = bouldersGroup[i]
         /\ \A i \in SpikeIds :
               Beyond(spikesGroup[i], call') => spikesGroup'[i] = spikesGroup[i]]_vars

\* C11 (amended): during handleCreateExplosion an enemy or boulder farther than
\* the radius from the centre is left exactly as it was, and a spike farther
\* than the radius changes only when it was active and its Y lies in the range
\* test of a row the call's row-clearing pass removed.
C11_ContainmentButClearedBand ==
    [][ExplosionCall(call') =>
         /\ \A i \in 1..Len(enemiesGroup) :
               Beyond(enemiesGroup[i], call') => enemiesGroup'[i] = enemiesGroup[i]
         /\ \A i \in 1..Len(bouldersGroup) :
               Beyond(bouldersGroup[i], call') => bouldersGroup'[i] = bouldersGroup[i]
         /\ \A i \in SpikeIds :
               (Beyond(spikesGroup[i], call') /\ spikesGroup'[i] # spikesGroup[i])
                  => /\ spikesGroup[i].active
                     /\ \E t \in RemovedRows : InClearBand(spikesGroup[i], t)]_vars

\* an explosion that damaged a spike beyond its radius while an active enemy
\* and an active boulder beyond the radius exist
C11_Witness ==
    /\ ExplosionCall(call)
    /\ \E k \in 1..Len(damageLog) :
          /\ damageLog[k].kind = "spike"
          /\ Beyond(spikesGroup[damageLog[k].idx], call)
    /\ \E i \in 1..Len(enemiesGroup) :
          enemiesGroup[i].active /\ Beyond(enemiesGroup[i], call)
    /\ \E i \in 1..Len(bouldersGroup) :
          bouldersGroup[i].active /\ Beyond(bouldersGroup[i], call)

(***************************************************************************)
(* Scenario properties (specification SpecRows)                            *)
(***************************************************************************)
Clear(y) == Called("clearCurrentRow", <<y>>)

\* a manager on which only generateRow(80, true) and generateRow(96) stored
\* rows and nothing was cleared yet
OnlyPlatformAndRowBelow ==
    /\ rowColliders = [r \in {initialPlatformRows, initialPlatformRows + 1} |-> r * TILE_SIZE]
    /\ rowVisuals = rowColliders
    /\ clearedRows = {}

\* C12 (as stated): with rows 5 and 6 generated on a fresh manager,
\* clearCurrentRow(97) removes row 6's collider and returns true, and a repeat
\* clearCurrentRow(97) returns false.
C12_ScenarioClear97 ==
    [][/\ (OnlyPlatformAndRowBelow /\ call' = Clear(97))
            => (ret' = TRUE /\ 6 \notin Stored(rowColliders'))
       /\ (call = Clear(97) /\ ret = TRUE /\ call' = Clear(97))
            => ret' = FALSE]_vars

\* C12 (amended): with rows 5 and 6 generated on a fresh manager,
\* clearCurrentRow(97) aims at row 7, returns false and leaves rows 5 and 6
\* stored; clearCurrentRow(81) removes row 6's collider and visual, keeps row 5
\* and returns true, and a repeat clearCurrentRow(81) returns false.
C12_ScenarioClear81 ==
    [][/\ (OnlyPlatformAndRowBelow /\ call' = Clear(97))
            => (ret' = FALSE /\ rowColliders' = rowColliders /\ rowVisuals' = rowVisuals)
       /\ (OnlyPlatformAndRowBelow /\ call' = Clear(81))
            => /\ ret' = TRUE
               /\ Stored(rowColliders') = {5} /\ Stored(rowVisuals') = {5}
               /\ Count(rowColliderGroup', 6) = 0
       /\ (call = Clear(81) /\ ret = TRUE /\ call' = Clear(81))
            => ret' = FALSE]_vars

\* the repeat of clearCurrentRow(81) was refused after the first removed row 6
\* from a store that held rows 5 and 6 only
C12_Witness ==
    /\ call = Clear(81) /\ ret = FALSE
    /\ clearedRows = {6}
    /\ Stored(rowColliders) = {5}
    /\ visited \cap Rows = {5, 6}

(***************************************************************************)
(* Clear target (specification SpecTarget)                                 *)
(***************************************************************************)
\* row indices wide enough to hold the target of every trigger in AnyTriggers
TargetRange == -3..(initialPlatformRows + initialClearRows + 2)

\* the smallest row index whose top is at or below / strictly below y
FirstRowAtOrBelow(y) ==
    CHOOSE k \in TargetRange :
        k * TILE_SIZE >= y /\ \A j \in TargetRange : j * TILE_SIZE >= y => k <= j
FirstRowStrictlyBelow(y) ==
    CHOOSE k \in TargetRange :
        k * TILE_SIZE > y /\ \A j \in TargetRange : j * TILE_SIZE > y => k <= j

\* C13 (as stated): for every trigger, multiples of TILE_SIZE and negative
\* values included, the clear target floor(trigger / TILE_SIZE) + 1 is the
\* smallest row index whose top is at or below the trigger, and that is the row
\* a successful clear reports.
C13_TargetAtOrBelow ==
    ClearCall(call) =>
        /\ targetTileY(call.arg[1]) = FirstRowAtOrBelow(call.arg[1])
        /\ ret = TRUE => notified = <<FirstRowAtOrBelow(call.arg[1])>>

\* C13 (amended): for every trigger, multiples of TILE_SIZE and negative values
\* included, the clear target floor(trigger / TILE_SIZE) + 1 is the smallest
\* row index whose top is strictly below the trigger, and that is the row a
\* successful clear reports and removes.
C13_TargetStrictlyBelow ==
    ClearCall(call) =>
        /\ targetTileY(call.arg[1]) = FirstRowStrictlyBelow(call.arg[1])
        /\ ret = TRUE =>
              /\ notified = <<FirstRowStrictlyBelow(call.arg[1])>>
              /\ FirstRowStrictlyBelow(call.arg[1]) \in clearedRows
              /\ FirstRowStrictlyBelow(call.arg[1]) \notin Stored(rowColliders)

\* a successful clear whose trigger is exactly the top of a row: the row
\* removed is the next one, the trigger's own row stays stored
C13_Witness ==
    /\ ClearCall(call) /\ ret = TRUE
    /\ call.arg[1] % TILE_SIZE = 0
    /\ notified = <<call.arg[1] \div TILE_SIZE + 1>>
    /\ call.arg[1] \div TILE_SIZE \in Stored(rowColliders)

(***************************************************************************)
(* Explosion scenario (specification SpecBlast)                            *)
(***************************************************************************)
\* an explosion of radius 40 at row 10's world centre, x inside the world
Radius40AtRow10(c) ==
    /\ ExplosionCall(c)
    /\ c.arg[1] >= 0 /\ c.arg[1] <= mapWidthPixels
    /\ c.arg[2] = 10 * TILE_SIZE + TILE_SIZE \div 2
    /\ c.arg[3] = 40

\* C14: an explosion of radius 40 centred at row 10's world centre, with rows
\* 7..13 all stored, clears exactly rows 8, 9, 10, 11 and 12 (7 and 13 stay),
\* kills every active enemy within distance 40 with one takeDamage(999), and
\* leaves every enemy farther than 40 (one at distance 45 among them) as it was.
C14_ScenarioRadius40 ==
    [][(Radius40AtRow10(call') /\ 7..13 \subseteq Stored(rowColliders)) =>
         /\ Stored(rowColliders') = Stored(rowColliders) \ (8..12)
         /\ Stored(rowVisuals') = Stored(rowVisuals) \ (8..12)
         /\ notified' = <<8, 9, 10, 11, 12>>
         /\ \A i \in 1..Len(enemiesGroup) :
               /\ (enemiesGroup[i].active /\ Within(enemiesGroup[i], call'))
                     => /\ ~enemiesGroup'[i].active
                        /\ Hurt("enemy", i, 999) \in {damageLog'[k] : k \in 1..Len(damageLog')}
               /\ Beyond(enemiesGroup[i], call')
                     => enemiesGroup'[i] = enemiesGroup[i]]_vars

\* the scenario's explosion cleared rows 8..12, killed an enemy inside the
\* radius and left an active enemy 45 pixels (to the pixel) from the centre
C14_Witness ==
    /\ Radius40AtRow10(call)
    /\ notified = <<8, 9, 10, 11, 12>>
    /\ {7, 13} \subseteq Stored(rowColliders)
    /\ \E k \in 1..Len(damageLog) :
          damageLog[k].kind = "enemy" /\ damageLog[k].amount = 999
    /\ \E i \in 1..Len(enemiesGroup) :
          /\ enemiesGroup[i].active
          /\ DistSq(enemiesGroup[i], call) >= Px(45) * Px(45)
          /\ DistSq(enemiesGroup[i], call) < Px(46) * Px(46)

\* the rows C15 names for explosion call c: within ceil(R / TILE_SIZE) rows of
\* the centre's row and with their centre line no farther than R vertically
SelectedRows(c) ==
    LET y == c.arg[2]
        R == c.arg[3]
        reach == (R + TILE_SIZE - 1) \div TILE_SIZE
    IN {t \in (y \div TILE_SIZE - reach)..(y \div TILE_SIZE + reach) :
           (y - (t * TILE_SIZE + TILE_SIZE \div 2))
               * (y - (t * TILE_SIZE + TILE_SIZE \div 2)) <= R * R}

\* a sequence that lists a set of integers in increasing order, each once
Ascending(q, S) ==
    /\ {q[k] : k \in 1..Len(q)} = S
    /\ \A j, k \in 1..Len(q) : j < k => q[j] < q[k]

\* C15: handleCreateExplosion with its centre inside the world width runs the
\* Row Clearer once for each row within ceil(R / TILE_SIZE) rows of the centre's
\* row whose centre line is vertically within R, and for no other row; each
\* stored row among them leaves both maps and both groups, and every other
\* stored row stays.
C15_ExplosionRowSelection ==
    [][(ExplosionCall(call') /\ call'.arg[1] >= 0 /\ call'.arg[1] <= mapWidthPixels) =>
         /\ Ascending(clearLog', SelectedRows(call'))
         /\ Stored(rowColliders') = Stored(rowColliders) \ SelectedRows(call')
         /\ Stored(rowVisuals') = Stored(rowVisuals) \ SelectedRows(call')
         /\ \A t \in SelectedRows(call') :
               Count(rowColliderGroup', t) = 0 /\ Count(rowVisualsGroup', t) = 0
         /\ \A t \in Stored(rowColliders') :
               /\ rowColliders'[t] = rowColliders[t]
               /\ Count(rowColliderGroup', t) = Count(rowColliderGroup, t)]_vars

\* an explosion on the map's left edge, centred on a row's top, ran the Row
\* Clearer for four rows: some were stored and removed, one was already gone
C15_Witness ==
    /\ ExplosionCall(call)
    /\ call.arg[1] = 0
    /\ call.arg[2] % TILE_SIZE = 0
    /\ Len(clearLog) = 4
    /\ Len(notified) \in 1..3
    /\ clearLog[1] = call.arg[2] \div TILE_SIZE - 2

\* the takeDamage calls of the last call that hit child i of a group
HurtsOf(log, kind, i) == {k \in 1..Len(log) : log[k].kind = kind /\ log[k].idx = i}

\* C16: every enemy, spike and boulder that is active when
\* handleCreateExplosion is called and lies within the radius takes damage
\* during the call, rows cleared or not: an enemy exactly one takeDamage(999),
\* a boulder exactly one takeDamage(3), a spike at least one takeDamage(1).
C16_DamageIndependentOfClearing ==
    [][ExplosionCall(call') =>
         /\ \A i \in 1..Len(enemiesGroup) :
               (enemiesGroup[i].active /\ Within(enemiesGroup[i], call')) =>
                  /\ Cardinality(HurtsOf(damageLog', "enemy", i)) = 1
                  /\ \A k \in HurtsOf(damageLog', "enemy", i) : damageLog'[k].amount = 999
         /\ \A i \in 1..Len(bouldersGroup) :
               (bouldersGroup[i].active /\ Within(bouldersGroup[i], call')) =>
                  /\ Cardinality(HurtsOf(damageLog', "boulder", i)) = 1
                  /\ \A k \in HurtsOf(damageLog', "boulder", i) : damageLog'[k].amount = 3
         /\ \A i \in SpikeIds :
               (spikesGroup[i].active /\ Within(spikesGroup[i], call')) =>
                  /\ HurtsOf(damageLog', "spike", i) # {}
                  /\ \A k \in HurtsOf(damageLog', "spike", i) : damageLog'[k].amount = 1]_vars

\* an explosion that found no row to clear and still damaged an enemy, a
\* boulder and a spike inside its radius
C16_Witness ==
    /\ ExplosionCall(call)
    /\ clearLog # <<>> /\ notified = <<>>
    /\ \E k \in 1..Len(damageLog) :
          damageLog[k].kind = "enemy" /\ Within(enemiesGroup[damageLog[k].idx], call)
    /\ \E k \in 1..Len(damageLog) :
          damageLog[k].kind = "boulder" /\ Within(bouldersGroup[damageLog[k].idx], call)
    /\ \E k \in 1..Len(damageLog) :
          damageLog[k].kind = "spike" /\ Within(spikesGroup[damageLog[k].idx], call)

(***************************************************************************)
(* Scheduler properties                                                    *)
(***************************************************************************)
UpdateCall(c) == c.op = "update"
Threshold(c) == c.arg[1] + 10 * TILE_SIZE

\* C17: an update whose threshold lies beyond the frontier F sets the frontier
\* to the threshold and leaves every in-bounds row under the platform whose top
\* is in [F, threshold) and that was never visited before in the Row Store,
\* whether F and the threshold are on the tile grid or not.
C17_SchedulerAdvance ==
    [][(UpdateCall(call') /\ Threshold(call') > generatedRowsMaxY) =>
         /\ generatedRowsMaxY' = Threshold(call')
         /\ \A r \in Rows :
               (/\ r > initialPlatformRows /\ r < mapHeightTiles
                /\ generatedRowsMaxY <= r * TILE_SIZE
                /\ r * TILE_SIZE < Threshold(call')
                /\ r \notin visited)
                  => r \in Stored(rowColliders')]_vars

\* what update may change: frontier, Row Store, live objects and entities
Terrain == <<generatedRowsMaxY, rowColliders, rowVisuals, rowColliderGroup,
             rowVisualsGroup, spikesGroup, enemiesGroup, bouldersGroup, coinsGroup>>

\* C18: an update whose threshold does not exceed the frontier changes neither
\* the frontier nor the Row Store, calls generateRow for no row and spawns
\* nothing; and an update repeated with the same argument changes nothing.
C18_SchedulerNoOp ==
    [][/\ (UpdateCall(call') /\ Threshold(call') <= generatedRowsMaxY)
            => (Terrain' = Terrain /\ visitLog' = <<>> /\ visited' = visited)
       /\ (UpdateCall(call) /\ call' = call)
            => (Terrain' = Terrain /\ visitLog' = <<>> /\ visited' = visited)]_vars

\* an update that found its threshold covered, on a store that holds rows
\* under the initial chunk and entities
C18_Witness ==
    /\ UpdateCall(call)
    /\ Threshold(call) <= generatedRowsMaxY
    /\ visitLog = <<>>
    /\ FirstFreshRow \in Stored(rowColliders)
    /\ NumEntities > 0

\* row r was materialized: it is in the Row Store, or was until it was cleared
Materialized(r) == r \in Stored(rowColliders) \/ r \in clearedRows

\* C19: right after every update(c) the frontier is at least c + 10 tiles, and
\* every in-bounds row under the platform whose top is at or above c (so inside
\* or above the view) is in the Row Store or was in it until it was cleared.
C19_GenerateAheadOfView ==
    UpdateCall(call) =>
        /\ generatedRowsMaxY >= call.arg[1] + 10 * TILE_SIZE
        /\ \A r \in Rows :
              (/\ r > initialPlatformRows /\ r < mapHeightTiles
               /\ r * TILE_SIZE <= call.arg[1])
                 => Materialized(r)

\* after an update the deepest row with its top inside the view is gone from
\* the Row Store because it was dug away, and the first row under the platform
\* is stored
C19_Witness ==
    /\ UpdateCall(call)
    /\ visitLog # <<>>
    /\ \E r \in clearedRows :
          /\ r \notin Stored(rowColliders)
          /\ r * TILE_SIZE <= call.arg[1]
          /\ (r + 1) * TILE_SIZE > call.arg[1]
    /\ initialPlatformRows + 1 \in Stored(rowColliders)

(***************************************************************************)
(* Map bounds (specification SpecBottom)                                   *)
(***************************************************************************)
OutOfBounds(t) == t < 0 \/ t >= mapHeightTiles

\* C20: generateRow for a row index below 0 or at or beyond mapHeightTiles,
\* forced or not, changes nothing; and after any call, update with thresholds
\* beyond the map height included, every key of the Row Store and every live
\* collider and visual belongs to a row index in 0..mapHeightTiles-1.
C20_OutOfBoundsNoOp ==
    [][/\ (call'.op = "generateRow"
              /\ OutOfBounds(Floor(call'.arg[1], TILE_SIZE)))
            => Terrain' = Terrain
       /\ \A k \in Stored(rowColliders') \cup Stored(rowVisuals')
                     \cup Stored(rowColliderGroup') \cup Stored(rowVisualsGroup') :
             ~OutOfBounds(k)]_vars

\* an update whose loop ran past the last row: it called generateRow for a row
\* index beyond the map, stored the last row and spawned on it
C20_Witness ==
    /\ UpdateCall(call)
    /\ \E i \in 1..Len(visitLog) : visitLog[i] >= mapHeightTiles
    /\ mapHeightTiles - 1 \in Stored(rowColliders)
    /\ generatedRowsMaxY > mapHeightTiles * TILE_SIZE
    /\ Len(bouldersGroup) >= mapWidthTiles

(***************************************************************************)
(* Content placement (specification SpecRows)                              *)
(***************************************************************************)
GenerateRowCall(c) == c.op = "generateRow"
Spawned == <<spikesGroup, enemiesGroup, bouldersGroup, coinsGroup>>

\* the children a call appended to a group
NewIn(before, after) == {after[i] : i \in (Len(before) + 1)..Len(after)}

\* C21: generateRow for a row index at or above the platform row, the forced
\* generation of the platform row included, adds no boulder, enemy, spike or
\* coin; and every entity any call spawns lies below the top of the first row
\* under the platform, in the column band of a row index > initialPlatformRows.
C21_ContentBelowPlatformOnly ==
    [][/\ (GenerateRowCall(call')
              /\ Floor(call'.arg[1], TILE_SIZE) <= initialPlatformRows)
            => Spawned' = Spawned
       /\ \A e \in NewIn(spikesGroup, spikesGroup') \cup NewIn(enemiesGroup, enemiesGroup')
                     \cup NewIn(bouldersGroup, bouldersGroup')
                     \cup NewIn(coinsGroup, coinsGroup') :
             e.y > Px((initialPlatformRows + 1) * TILE_SIZE)]_vars

\* the platform row and the row above it were stored by forced calls, the last
\* one for the platform row, and the only entities are those of deeper rows
C21_Witness ==
    /\ call = Called("generateRow", <<initialPlatformRows * TILE_SIZE, TRUE>>)
    /\ visitLog = <<initialPlatformRows>>
    /\ {initialPlatformRows - 1, initialPlatformRows} \subseteq Stored(rowColliders)
    /\ NumEntities > 0
    /\ Len(bouldersGroup) = 0 /\ Len(coinsGroup) = 0

(***************************************************************************)
(* One cell under the platform, generated, dug, blasted and generated      *)
(* again with every combination of the four draws (specification           *)
(* SpecPlace).  The call records the draws that succeeded in it.           *)
(***************************************************************************)
Kinds == {"boulder", "enemy", "spike", "coin"}
PlaceRows == {initialPlatformRows + 1}
PlaceCol == MidCol

\* the draws of column PlaceCol that succeed, for the row being generated
PlaceRollChoices(tileY) ==
    IF NumEntities < MaxEntities - 3
    THEN {{<<tileY, PlaceCol, k>> : k \in ks} : ks \in SUBSET Kinds}
    ELSE {{}}

\* a dig from the row above
PlaceTriggers == {r * TILE_SIZE - TILE_SIZE \div 2 : r \in PlaceRows}

\* a blast centred on the bottom edge of the row, over the cell
PlaceBlastX == PlaceCol * TILE_SIZE + TILE_SIZE \div 2
PlaceBlastY == (initialPlatformRows + 2) * TILE_SIZE
PlaceBlastRadius == (3 * TILE_SIZE) \div 4

DoGenerateRowDrawing ==
    \E r \in PlaceRows :
        \E rolls \in PlaceRollChoices(r) :
            Commit(GenerateRow(World, r * TILE_SIZE, FALSE, rolls),
                   Called("generateRow", <<r * TILE_SIZE, FALSE, rolls>>))

DoClearPlaced ==
    \E y \in PlaceTriggers :
        Commit(ClearCurrentRow(World, y), Called("clearCurrentRow", <<y>>))

DoBlastPlaced ==
    Commit(HandleCreateExplosion(World, PlaceBlastX, PlaceBlastY, PlaceBlastRadius),
           Called("handleCreateExplosion", <<PlaceBlastX, PlaceBlastY, PlaceBlastRadius>>))

NextPlace ==
    \/ DoGenerateRowDrawing
    \/ DoClearPlaced
    \/ DoBlastPlaced

SpecPlace == Init /\ [][NextPlace]_vars

\* the candidate position of a column of the row generated by call c
CandX(col) == Px(col * TILE_SIZE) + Px(TILE_SIZE) \div 2
CandY(c) == Px(c.arg[1]) + (9 * Px(TILE_SIZE)) \div 10 - (Px(TILE_SIZE) \div 10) \div 2

\* the indices a call appended to a group, in a column
NewAt(before, after, col) ==
    {i \in (Len(before) + 1)..Len(after) : after[i].x = CandX(col)}

\* the call was a generateRow that stored its row
StoredItsRow ==
    /\ GenerateRowCall(call')
    /\ Floor(call'.arg[1], TILE_SIZE) \in Stored(rowColliders') \ Stored(rowColliders)

\* a live child of a group has its body centre within 0.8 tile of the
\* candidate position on both axes
LiveWithin(group, c, col) ==
    \E i \in 1..Len(group) :
        /\ group[i].active
        /\ Abs(group[i].x - CandX(col)) < (8 * Px(TILE_SIZE)) \div 10
        /\ Abs(group[i].y - CandY(c)) < (8 * Px(TILE_SIZE)) \div 10

\* an inactive child of a group lies that close to the candidate position
DeadWithin(group, c, col) ==
    \E i \in 1..Len(group) :
        /\ ~group[i].active
        /\ Abs(group[i].x - CandX(col)) < (8 * Px(TILE_SIZE)) \div 10
        /\ Abs(group[i].y - CandY(c)) < (8 * Px(TILE_SIZE)) \div 10

\* the column of call c was blocked in the state the call started from
Blocked(c, col) ==
    \/ LiveWithin(bouldersGroup, c, col)
    \/ LiveWithin(enemiesGroup, c, col)
    \/ LiveWithin(spikesGroup, c, col)
    \/ LiveWithin(coinsGroup, c, col)

Drawn(c, col, k) == <<Floor(c.arg[1], TILE_SIZE), col, k>> \in c.arg[3]

\* C22: in one generateRow call each column gets at most one entity; the
\* draws are taken in the order boulder, enemy, spike and the first success
\* wins; a coin is spawned only where none of the three was spawned.
C22_OnePerCellInOrder ==
    [][GenerateRowCall(call') =>
        \A col \in 0..(mapWidthTiles - 1) :
            LET b == NewAt(bouldersGroup, bouldersGroup', col)
                e == NewAt(enemiesGroup, enemiesGroup', col)
                s == NewAt(spikesGroup, spikesGroup', col)
                c == NewAt(coinsGroup, coinsGroup', col)
            IN  /\ Cardinality(b) + Cardinality(e) + Cardinality(s) + Cardinality(c) <= 1
                /\ b # {} => Drawn(call', col, "boulder")
                /\ e # {} => /\ Drawn(call', col, "enemy")
                             /\ ~Drawn(call', col, "boulder")
                /\ s # {} => /\ Drawn(call', col, "spike")
                             /\ ~Drawn(call', col, "boulder")
                             /\ ~Drawn(call', col, "enemy")
                /\ c # {} => /\ Drawn(call', col, "coin")
                             /\ b = {} /\ e = {} /\ s = {}
                /\ (StoredItsRow /\ Drawn(call', col, "boulder")) => e = {} /\ s = {} /\ c = {}
                /\ (StoredItsRow /\ Drawn(call', col, "enemy")) => s = {} /\ c = {}
                /\ (StoredItsRow /\ Drawn(call', col, "spike")) => c = {}
                /\ Blocked(call', col) => c = {}]_vars

\* all four draws succeeded in a call that stored its row, and the cell got
\* its boulder and nothing else
C22_Witness ==
    /\ GenerateRowCall(call)
    /\ Len(call.arg) = 3
    /\ \A k \in Kinds : Drawn(call, PlaceCol, k)
    /\ visitLog = <<initialPlatformRows + 1>>
    /\ initialPlatformRows + 1 \in Stored(rowColliders)
    /\ Len(bouldersGroup) = 1
    /\ bouldersGroup[1].x = CandX(PlaceCol)
    /\ NumEntities = 1

SpawnedAt(col) ==
    NewAt(bouldersGroup, bouldersGroup', col) # {}
        \/ NewAt(enemiesGroup, enemiesGroup', col) # {}
        \/ NewAt(spikesGroup, spikesGroup', col) # {}
        \/ NewAt(coinsGroup, coinsGroup', col) # {}

C23_BlockedReached ==
    /\ GenerateRowCall(call)
    /\ Len(call.arg) = 3
    /\ Drawn(call, PlaceCol, "boulder")
    /\ visitLog = <<initialPlatformRows + 1>>
    /\ initialPlatformRows + 1 \in Stored(rowColliders)
    /\ LiveWithin(coinsGroup, call, PlaceCol)
    /\ NumEntities = 1

(***************************************************************************)
(* Notifications, reentrancy and termination                               *)
(***************************************************************************)
\* the clears of the last call that found their target row in the Row Store
SuccessfulClears ==
    {i \in 1..Len(clearLog') : clearLog'[i] \in Stored(rowColliders)}

Payloads(log) == {log[i] : i \in 1..Len(log)}

\* C24: every clear that returns true emits exactly one 'dirt-row-cleared'
\* notification, carrying the index of the row it removed, and a clear that
\* returns false emits none; in every call the number of notifications is the
\* number of its clears that succeeded and the number of rows it removed (an
\* explosion removing k rows emits k), so the two counts agree over any run.
C24_OneNotificationPerClear ==
    [][/\ Len(notified') = Cardinality(SuccessfulClears)
       /\ Len(notified') = Cardinality(RemovedRows)
       /\ Payloads(notified') = RemovedRows
       /\ ClearCall(call') =>
             /\ ret' = TRUE => /\ Len(notified') = 1
                               /\ notified'[1] = Target(call')
                               /\ RemovedRows = {Target(call')}
             /\ ret' = FALSE => notified' = <<>>]_vars

\* an explosion ran three clears, two of which found their row
C24_Witness ==
    /\ ExplosionCall(call)
    /\ Len(clearLog) = 3
    /\ Len(notified) = 2
    /\ notified[1] # notified[2]

\* the rows under the platform that the call stored
FilledRows ==
    {t \in Stored(rowColliders') \ Stored(rowColliders) : t > initialPlatformRows}

\* C26: every call returns after a bounded number of steps: update calls
\* generateRow at most ceil((threshold - frontier) / TILE_SIZE) times and not
\* at all when the threshold is not beyond the frontier, generateRow runs its
\* column loop exactly mapWidthTiles times for each row it fills, an explosion
\* of radius R calls clearCurrentRow at most 2 * ceil(R / TILE_SIZE) + 1 times,
\* and clearCurrentRow runs once, with at most its two particle loops over the
\* row width.
C26_BoundedLoops ==
    [][/\ UpdateCall(call') =>
             /\ Threshold(call') > generatedRowsMaxY =>
                   Len(visitLog') * TILE_SIZE
                       < Threshold(call') - generatedRowsMaxY + TILE_SIZE
             /\ Threshold(call') <= generatedRowsMaxY => visitLog' = <<>>
       /\ columns' = mapWidthTiles * Cardinality(FilledRows)
       /\ ExplosionCall(call') =>
             /\ Len(clearLog') * TILE_SIZE < 2 * call'.arg[3] + 3 * TILE_SIZE
             /\ visitLog' = <<>>
       /\ ClearCall(call') =>
             /\ Len(clearLog') = 1
             /\ particles' \in {0, mapWidthTiles + mapWidthTiles}
             /\ visitLog' = <<>>]_vars

\* an update called generateRow for three rows, two of which it filled
C26_Witness ==
    /\ UpdateCall(call)
    /\ Len(visitLog) = 3
    /\ columns = 2 * mapWidthTiles

(***************************************************************************)
(* Delivery of 'dirt-row-cleared' as a position of clearCurrentRow: the    *)
(* call stands at its EventBus.emit while listeners run, and a listener    *)
(* may call back into the manager (specification SpecReentry).             *)
(***************************************************************************)
\* mutant: the notification is emitted before the row is taken out of the maps
ClearUpToEmit_BeforeRemoval(w, triggerWorldY) ==
    LET t == targetTileY(triggerWorldY)
    IN  IF t \in DOMAIN w.rowColliders
        THEN [w EXCEPT !.notified = Append(@, t),
                       !.clearLog = Append(@, t),
                       !.ret = TRUE]
        ELSE [w EXCEPT !.clearLog = Append(@, t), !.ret = FALSE]

\* clearCurrentRow up to its emit: the emit is its last statement before
\* `return true`
ClearUpToEmit(w, triggerWorldY) == ClearCurrentRow(w, triggerWorldY)

\* the manager as a listener finds it: the logs of the call in progress go on
Nested == [World EXCEPT !.notified = notified, !.particles = particles,
                        !.damageLog = damageLog, !.visitLog = visitLog,
                        !.clearLog = clearLog, !.columns = columns]

Delivering(c) == c.op = "dirt-row-cleared"
Delivery(tileY, triggerWorldY, listener) ==
    Called("dirt-row-cleared", <<tileY, triggerWorldY, listener>>)

\* draws on the platform row, spikes two rows above the rows that are dug, an
\* enemy next to them
ReentryRows == {initialPlatformRows + 3, initialPlatformRows + 4}
ReentryPack == {<<initialPlatformRows, MidCol + 3, "boulder">>,
                <<initialPlatformRows, MidCol + 5, "spike">>,
                <<initialPlatformRows + 1, MidCol, "spike">>,
                <<initialPlatformRows + 2, MidCol, "spike">>,
                <<initialPlatformRows + 3, MidCol - 1, "enemy">>,
                <<initialPlatformRows + 3, MidCol + 1, "boulder">>}
ReentryRollChoices == IF NumEntities < MaxEntities - 1 THEN {ReentryPack} ELSE {{}}
ReentryTriggers == {r * TILE_SIZE - TILE_SIZE \div 2 : r \in ReentryRows}
ReentryRadii == {TILE_SIZE \div 2, TILE_SIZE + TILE_SIZE \div 2}
\* calls a listener makes before it returns
MaxListenerCalls == 2

DoChunkBeforeDig ==
    /\ ~Delivering(call)
    /\ \E rolls \in ReentryRollChoices :
          Commit(InitialChunk(World, rolls), Called("generateInitialChunk", <<>>))

\* clearCurrentRow reaches its emit, or returns false
DoClearEmitting ==
    /\ ~Delivering(call)
    /\ \E y \in ReentryTriggers :
          LET a == ClearUpToEmit(World, y)
          IN Commit(a, IF a.ret THEN Delivery(targetTileY(y), y, "none")
                       ELSE Called("clearCurrentRow", <<y>>))

\* a listener calls clearCurrentRow with the trigger of the call in progress
DoListenerClears ==
    /\ Delivering(call)
    /\ Len(clearLog) <= MaxListenerCalls
    /\ Commit(ClearCurrentRow(Nested, call.arg[2]),
              Delivery(call.arg[1], call.arg[2], "clearCurrentRow"))

\* a listener sets off an explosion centred on the row being notified
DoListenerExplodes ==
    /\ Delivering(call)
    /\ Len(clearLog) <= MaxListenerCalls
    /\ \E radius \in ReentryRadii :
          Commit(HandleCreateExplosion(Nested, MidCol * TILE_SIZE + TILE_SIZE \div 2,
                                       call.arg[1] * TILE_SIZE + TILE_SIZE \div 2, radius),
                 Delivery(call.arg[1], call.arg[2], "handleCreateExplosion"))

\* mutant: an entity standing on the row above the cleared one drops a tile
FallingChecked_Drops(group, clearedTileY) ==
    [i \in 1..Len(group) |->
        IF group[i].active /\ HasBody(group[i])
              /\ Floor(group[i].y, Px(TILE_SIZE)) = clearedTileY - 1
        THEN [group[i] EXCEPT !.y = @ + Px(TILE_SIZE)]
        ELSE group[i]]

\* one forEach of checkEntitiesFalling: the block run for an active child
\* with a body that stands on the row above the cleared one is empty
FallingChecked(group, clearedTileY) ==
    [i \in 1..Len(group) |->
        IF group[i].active /\ HasBody(group[i])
              /\ Floor(group[i].y, Px(TILE_SIZE)) = clearedTileY - 1
        THEN group[i]
        ELSE group[i]]

\* Game.checkEntitiesFalling(clearedTileY)
CheckEntitiesFalling(w, clearedTileY) ==
    [w EXCEPT !.enemiesGroup = FallingChecked(@, clearedTileY),
              !.bouldersGroup = FallingChecked(@, clearedTileY)]

\* Game's own listener: checkEntitiesFalling(data.tileY)
DoListenerChecksFalling ==
    /\ Delivering(call)
    /\ call.arg[3] # "checkEntitiesFalling"
    /\ Commit(CheckEntitiesFalling(Nested, call.arg[1]),
              Delivery(call.arg[1], call.arg[2], "checkEntitiesFalling"))

\* the listeners have returned: clearCurrentRow returns true
DoReturnTrue ==
    /\ Delivering(call)
    /\ call' = Called("clearCurrentRow", <<call.arg[2]>>)
    /\ ret' = TRUE
    /\ UNCHANGED <<generatedRowsMaxY, rowColliders, rowVisuals, rowColliderGroup,
                   rowVisualsGroup, spikesGroup, enemiesGroup, bouldersGroup,
                   coinsGroup, notified, particles, damageLog, clearedRows,
                   visited, visitLog, clearLog, columns, player, time, registry,
                   emitted, playerClears>>

NextReentry ==
    \/ DoChunkBeforeDig
    \/ DoClearEmitting
    \/ DoListenerClears
    \/ DoListenerExplodes
    \/ DoListenerChecksFalling
    \/ DoReturnTrue

SpecReentry == Init /\ [][NextReentry]_vars

Times(log, v) == Cardinality({i \in 1..Len(log) : log[i] = v})

\* C25: when the notification for row N is delivered, N is in neither
\* rowColliders nor rowVisuals; a listener that calls clearCurrentRow for N
\* during the delivery gets false and changes nothing (no removal, no
\* notification, no spike damage), and a listener that sets off an explosion
\* over N removes N no second time, emits no second notification for N and
\* damages only spikes that lie within its radius or in the range tested by
\* the clear of another row the explosion removed: none for row N.
C25_ReentrantClearIsNoOp ==
    [][/\ Delivering(call') =>
             /\ call'.arg[1] \notin Stored(rowColliders')
             /\ call'.arg[1] \notin Stored(rowVisuals')
             /\ Times(notified', call'.arg[1]) = 1
       /\ (Delivering(call) /\ Delivering(call')) =>
             /\ call.arg[1] \notin RemovedRows
             /\ call'.arg[3] = "clearCurrentRow" =>
                   /\ ret' = FALSE
                   /\ Terrain' = Terrain
                   /\ notified' = notified
                   /\ damageLog' = damageLog
                   /\ particles' = particles
                   /\ clearLog' = Append(clearLog, call.arg[1])
             /\ call'.arg[3] = "handleCreateExplosion" =>
                   /\ call.arg[1] \in Payloads(clearLog')
                   /\ \A i \in 1..Len(spikesGroup) :
                         spikesGroup'[i] # spikesGroup[i] =>
                            \/ \E t \in RemovedRows : InClearBand(spikesGroup[i], t)
                            \/ (Px(MidCol * TILE_SIZE + TILE_SIZE \div 2) - spikesGroup[i].x)
                                  * (Px(MidCol * TILE_SIZE + TILE_SIZE \div 2) - spikesGroup[i].x)
                               + (Px(call.arg[1] * TILE_SIZE + TILE_SIZE \div 2) - spikesGroup[i].y)
                                 * (Px(call.arg[1] * TILE_SIZE + TILE_SIZE \div 2) - spikesGroup[i].y)
                               <= Px(TILE_SIZE + TILE_SIZE \div 2) * Px(TILE_SIZE + TILE_SIZE \div 2)]_vars

\* the clear of a row killed a spike, and the listener cleared the row again
C25_Witness ==
    /\ Delivering(call)
    /\ call.arg[3] = "clearCurrentRow"
    /\ clearLog = <<call.arg[1], call.arg[1]>>
    /\ notified = <<call.arg[1]>>
    /\ ret = FALSE
    /\ \E k \in 1..Len(damageLog) : damageLog[k].kind = "spike"

(***************************************************************************)
(* Placement on the tile grid, the initial chunk, depth scaling            *)
(***************************************************************************)
\* C27: every stored row is placed on the tile grid: the world-Y its collider
\* and its visual were positioned with is its index times TILE_SIZE, whether
\* generateInitialChunk or update (with any camera value) generated it.
C27_StoredRowsOnGrid ==
    /\ \A k \in Stored(rowColliders) : rowColliders[k] = k * TILE_SIZE
    /\ \A k \in Stored(rowVisuals) : rowVisuals[k] = k * TILE_SIZE

Constructed(c) == c.op = "constructor"
ChunkCall(c) == c.op = "generateInitialChunk"
InGroups(g1, g2, g3, g4) ==
    {g1[i] : i \in 1..Len(g1)} \cup {g2[i] : i \in 1..Len(g2)}
        \cup {g3[i] : i \in 1..Len(g3)} \cup {g4[i] : i \in 1..Len(g4)}

\* C28: a freshly constructed manager has its frontier at initialClearRows *
\* TILE_SIZE and an empty Row Store; generateInitialChunk called on it leaves
\* the store holding exactly the platform row and the 20 rows under it (5
\* through 25), each on the grid, places nothing on the platform row (every
\* entity lies under the top of row 6 and none at the platform row's spawn
\* heights), and sets the frontier to 26 * TILE_SIZE.
C28_InitialChunkOnFreshManager ==
    [][/\ Constructed(call) =>
             /\ generatedRowsMaxY = initialClearRows * TILE_SIZE
             /\ rowColliders = <<>> /\ rowVisuals = <<>>
       /\ (Constructed(call) /\ ChunkCall(call')) =>
             /\ Stored(rowColliders') = 5..25
             /\ Stored(rowVisuals') = 5..25
             /\ \A k \in 5..25 : rowColliders'[k] = k * TILE_SIZE
             /\ generatedRowsMaxY' = 26 * TILE_SIZE
             /\ \A e \in InGroups(spikesGroup', enemiesGroup', bouldersGroup', coinsGroup') :
                   /\ e.y > Px(6 * TILE_SIZE)
                   /\ e.y # Px(5 * TILE_SIZE + 10 + TILE_SIZE)]_vars

\* the chunk has been generated on a fresh manager with draws succeeding on the
\* platform row and under it
C28_Witness ==
    /\ ChunkCall(call)
    /\ clearedRows = {}
    /\ Len(visitLog) = 21
    /\ Len(spikesGroup) = 1 /\ Len(enemiesGroup) = 1
    /\ Len(bouldersGroup) = 1
    /\ Len(coinsGroup) = 0

(***************************************************************************)
(* generateRow called for rows at chosen depths: the first rows under the  *)
(* platform, the rows around the depth where the enemy speed reaches its   *)
(* cap, and the rows around the depth where the boulder chance reaches 1   *)
(* (specification SpecDepth).  The call records the draws that came out    *)
(* under their chance.                                                     *)
(***************************************************************************)
DepthRows == {initialPlatformRows + 1, 146, 200, 329, 330}

\* one draw comes out low: the enemy's in the middle column or, in the two
\* deepest rows, the spike's two columns further
DepthRollChoices(tileY) ==
    IF Len(enemiesGroup) + Len(spikesGroup) < MaxEntities - 2
    THEN {{}, {<<tileY, MidCol, "enemy">>}}
         \cup (IF tileY >= 329 THEN {{<<tileY, MidCol + 2, "spike">>}} ELSE {})
    ELSE {{}}

DoGenerateRowAtDepth ==
    \E r \in DepthRows :
        \E rolls \in DepthRollChoices(r) :
            Commit(GenerateRow(World, r * TILE_SIZE, FALSE, rolls),
                   Called("generateRow", <<r * TILE_SIZE, FALSE, rolls>>))

NextDepth == DoGenerateRowAtDepth

SpecDepth == Init /\ [][NextDepth]_vars

\* the row an enemy was spawned for, from its height
RowOfEnemy(e) ==
    (e.y + Px(TILE_SIZE) \div 2 - (9 * Px(TILE_SIZE)) \div 10 + (Px(TILE_SIZE) \div 10) \div 2)
        \div Px(TILE_SIZE)

\* C29: for every row r under the platform that generateRow fills, the depth
\* r - (platformRow + 1) is >= 0 and each of the four chances is its base plus
\* depth x 0.003 (the base alone for the first row under the platform; the
\* boulder draw first succeeds by itself at depth 324); every enemy spawned
\* for row r is given the speed min(100, 30 + depth x 0.5), which lies in
\* [30, 100] and does not decrease with r.
C29_DepthScaling ==
    [][StoredItsRow =>
        LET r == Floor(call'.arg[1], TILE_SIZE)
            d == r - (initialPlatformRows + 1)
        IN  r > initialPlatformRows =>
              /\ d >= 0
              /\ currentBoulderChance(r) = 30 + 3 * d
              /\ currentEnemyChance(r) = 8 + 3 * d
              /\ currentSpikeChance(r) = 30 + 3 * d
              /\ currentCoinChance(r) = 5 + 3 * d
              /\ (d < 324 /\ call'.arg[3] = {}) => Spawned' = Spawned
              /\ \A i \in (Len(enemiesGroup) + 1)..Len(enemiesGroup') :
                    /\ RowOfEnemy(enemiesGroup'[i]) = r
                    /\ enemiesGroup'[i].speed = (IF 300 + 5 * d < 1000 THEN 300 + 5 * d ELSE 1000)
                    /\ enemiesGroup'[i].speed \in 300..1000
              /\ \A i, j \in 1..Len(enemiesGroup') :
                    RowOfEnemy(enemiesGroup'[i]) <= RowOfEnemy(enemiesGroup'[j])
                        => enemiesGroup'[i].speed <= enemiesGroup'[j].speed]_vars

\* enemies of the first row under the platform, of the row where the speed
\* reaches its cap and of a row beyond it
C29_Witness ==
    /\ GenerateRowCall(call)
    /\ Len(enemiesGroup) = 3
    /\ {enemiesGroup[i].speed : i \in 1..3} = {300, 1000}
    /\ {RowOfEnemy(enemiesGroup[i]) : i \in 1..3} = {initialPlatformRows + 1, 146, 200}

\* C30: for every row index platformRow < r < mapHeightTiles the boulder,
\* enemy, spike and coin chances stay <= 1, so every content type remains
\* reachable for an unoccupied column: a column whose boulder draw did not
\* come out under the chance gets no boulder, and one where the spike draw is
\* the first to do so gets its spike.
C30_ChancesStayProbabilities ==
    [][StoredItsRow =>
        LET r == Floor(call'.arg[1], TILE_SIZE)
        IN  (r > initialPlatformRows /\ r < mapHeightTiles) =>
              /\ \A k \in Kinds : currentChance(r, k) <= 1000
              /\ \A col \in 0..(mapWidthTiles - 1) :
                    /\ ~Drawn(call', col, "boulder")
                          => NewAt(bouldersGroup, bouldersGroup', col) = {}
                    /\ (Drawn(call', col, "spike") /\ ~Drawn(call', col, "boulder")
                           /\ ~Drawn(call', col, "enemy") /\ ~Blocked(call', col))
                          => NewAt(spikesGroup, spikesGroup', col) # {}]_vars

(***************************************************************************)
(* Spikes, an enemy and a boulder around row 10, dug at and blasted, with  *)
(* the rows generated again in between (specification SpecHurt).           *)
(***************************************************************************)
HurtPack == {<<9, MidCol, "spike">>, <<11, MidCol, "spike">>,
             <<10, MidCol - 1, "enemy">>, <<10, MidCol + 1, "boulder">>}
HurtRollChoices == IF NumEntities = 0 THEN {HurtPack} ELSE {{}}

\* digs aimed at the rows two under each spike's row
HurtTriggers == {11 * TILE_SIZE - TILE_SIZE \div 2, 13 * TILE_SIZE - TILE_SIZE \div 2}

\* blasts centred on row 10 over the middle column: half a tile and 40 px wide
HurtBlasts == {<<MidCol * TILE_SIZE + TILE_SIZE \div 2, 10 * TILE_SIZE + TILE_SIZE \div 2, r>> :
                  r \in {TILE_SIZE \div 2, 40}}

DoChunkWithHazards ==
    \E rolls \in HurtRollChoices :
        Commit(InitialChunk(World, rolls), Called("generateInitialChunk", <<>>))

DoBlastHazards ==
    \E b \in HurtBlasts :
        Commit(HandleCreateExplosion(World, b[1], b[2], b[3]),
               Called("handleCreateExplosion", b))

DoClearUnderSpikes ==
    \E y \in HurtTriggers :
        Commit(ClearCurrentRow(World, y), Called("clearCurrentRow", <<y>>))

NextHurt ==
    \/ DoChunkWithHazards
    \/ DoBlastHazards
    \/ DoClearUnderSpikes

SpecHurt == Init /\ [][NextHurt]_vars

GroupOf(kind) ==
    CASE kind = "spike" -> spikesGroup
      [] kind = "enemy" -> enemiesGroup
      [] kind = "boulder" -> bouldersGroup

\* C31: takeDamage is never called on an enemy, spike or boulder that is
\* inactive when it is examined: every entity damaged during a call was active
\* when the call began and, as each of these damages kills, is damaged once
\* in the call, so a spike killed by a clear of the explosion is skipped by
\* the later clears and by the direct-damage pass.
C31_InactiveNeverDamaged ==
    [][\A k \in 1..Len(damageLog') :
          LET h == damageLog'[k]
          IN  /\ h.idx \in 1..Len(GroupOf(h.kind))
              /\ GroupOf(h.kind)[h.idx].active
              /\ Cardinality(HurtsOf(damageLog', h.kind, h.idx)) = 1]_vars

\* an explosion killed a spike through the clear of a row, the spike lies
\* within the radius, and the direct pass left it alone
C31_Witness ==
    /\ ExplosionCall(call)
    /\ \E i \in 1..Len(spikesGroup) :
          /\ ~spikesGroup[i].active
          /\ Within(spikesGroup[i], call)
          /\ \E t \in Payloads(notified) : InClearBand(spikesGroup[i], t)
          /\ Cardinality(HurtsOf(damageLog, "spike", i)) = 1

\* C32: handling 'dirt-row-cleared' in Game (checkEntitiesFalling) changes no
\* Row Store entry, not the frontier, and no position, speed, health or active
\* flag of any enemy or boulder; it calls no terrain operation either.
C32_NoLossOfSupport ==
    [][(Delivering(call') /\ call'.arg[3] = "checkEntitiesFalling") =>
          /\ Terrain' = Terrain
          /\ notified' = notified /\ damageLog' = damageLog
          /\ clearLog' = clearLog /\ visitLog' = visitLog
          /\ particles' = particles]_vars

\* the listener ran for a cleared row with a live enemy and a live boulder
\* standing on the row above it
C32_Witness ==
    /\ Delivering(call)
    /\ call.arg[3] = "checkEntitiesFalling"
    /\ \E i \in 1..Len(enemiesGroup) :
          /\ enemiesGroup[i].active
          /\ Floor(enemiesGroup[i].y, Px(TILE_SIZE)) = call.arg[1] - 1
    /\ \E i \in 1..Len(bouldersGroup) :
          /\ bouldersGroup[i].active
          /\ Floor(bouldersGroup[i].y, Px(TILE_SIZE)) = call.arg[1] - 1

(***************************************************************************)
(* The Player (Player.ts) on a small terrain (specification SpecPlayer).   *)
(* What the handlers read from the physics body (blocked.down or           *)
(* touching.down, body.bottom, velocity) and from the cursor keys are      *)
(* inputs of the calls; velocity holds what the player's code last set.    *)
(***************************************************************************)
jumpVelocity == -200
bounceVelocity == -100
digCooldown == 150
invulnerabilityDuration == 500
boulderCollisionCooldown == 500
moveSpeed == 80

\* the manager, the player, the registry and the events of the call in progress
Scene == [w |-> World, p |-> player, r |-> registry, e |-> <<>>, clears |-> {}]

CommitScene(g, c) ==
    /\ CommitTerrain(g.w, c)
    /\ player' = g.p
    /\ registry' = g.r
    /\ emitted' = g.e
    /\ playerClears' = playerClears \cup g.clears
    /\ time' = time

\* setTemporaryInvulnerability(duration): the delayed call is due at now + duration
SetTemporaryInvulnerability(g, duration) ==
    IF g.p.isInvulnerable THEN g
    ELSE [g EXCEPT !.p.isInvulnerable = TRUE,
                   !.p.invulnerabilityTimer = time + duration]

\* mutant: the damage is taken while invulnerable too
PlayerTakeDamage_ThroughInvulnerability(g, amount) ==
    LET newLives == Max(0, g.r.lives - amount)
        d == [g EXCEPT !.r.lives = newLives,
                       !.e = @ \o <<"update-stats", "player-damaged">>]
    IN  IF newLives <= 0
        THEN [d EXCEPT !.e = Append(@, "player-died"),
                       !.p.active = FALSE, !.p.bodyEnabled = FALSE, !.p.ret = FALSE]
        ELSE [SetTemporaryInvulnerability(d, invulnerabilityDuration)
                 EXCEPT !.p.ret = TRUE]

\* mutant: the lives are not kept from going under 0
PlayerTakeDamage_Unclamped(g, amount) ==
    IF g.p.isInvulnerable THEN [g EXCEPT !.p.ret = TRUE]
    ELSE LET newLives == g.r.lives - amount
             d == [g EXCEPT !.r.lives = newLives,
                            !.e = @ \o <<"update-stats", "player-damaged">>]
         IN  IF newLives <= 0
             THEN [d EXCEPT !.e = Append(@, "player-died"),
                            !.p.active = FALSE, !.p.bodyEnabled = FALSE, !.p.ret = FALSE]
             ELSE [SetTemporaryInvulnerability(d, invulnerabilityDuration)
                      EXCEPT !.p.ret = TRUE]

\* Player.takeDamage(amount)
PlayerTakeDamage(g, amount) ==
    IF g.p.isInvulnerable THEN [g EXCEPT !.p.ret = TRUE]
    ELSE LET newLives == Max(0, g.r.lives - amount)
             d == [g EXCEPT !.r.lives = newLives,
                            !.e = @ \o <<"update-stats", "player-damaged">>]
         IN  IF newLives <= 0
             THEN [d EXCEPT !.e = Append(@, "player-died"),
                            !.p.active = FALSE, !.p.bodyEnabled = FALSE, !.p.ret = FALSE]
             ELSE [SetTemporaryInvulnerability(d, invulnerabilityDuration)
                      EXCEPT !.p.ret = TRUE]

\* mutant: the cooldown is not looked at
canJumpOrDig_NoCooldown(g, grounded) == grounded

canJumpOrDig(g, grounded) ==
    grounded /\ time > g.p.lastDigTime + digCooldown

\* attemptJumpAndDig(), bottom being body.bottom in whole pixels
AttemptJumpAndDig(g, grounded, bottom) ==
    IF ~canJumpOrDig(g, grounded) THEN g
    ELSE [g EXCEPT !.p.lastDigTime = time,
                   !.p.velocity[2] = jumpVelocity,
                   !.w = ClearCurrentRow(@, bottom + 1),
                   !.clears = @ \cup {time}]

\* cleanupCollisionRecords(currentTime): records older than the cooldown go
CleanupCollisionRecords(g) ==
    LET rec == g.p.recentBoulderCollisions
        kept == {b \in DOMAIN rec : ~(time - rec[b] > boulderCollisionCooldown)}
    IN  [g EXCEPT !.p.recentBoulderCollisions = [b \in kept |-> rec[b]]]

\* update(cursors, time, delta); cursors is <<left, right, up>>, grounded is
\* blocked.down || touching.down, walled is blocked.left || blocked.right
PlayerUpdate(g, cursors, grounded, bottom, walled) ==
    IF ~g.p.active THEN [g EXCEPT !.p.velocity = <<0, 0>>]
    ELSE LET c == CleanupCollisionRecords(g)
             vx == IF cursors[1] THEN -moveSpeed
                   ELSE IF cursors[2] THEN moveSpeed ELSE 0
             m == [c EXCEPT !.p.velocity[1] = vx]
             d == IF cursors[3] THEN AttemptJumpAndDig(m, grounded, bottom) ELSE m
         IN  IF ~grounded /\ d.p.velocity[1] # 0 /\ walled
             THEN [d EXCEPT !.p.velocity[1] = 0]
             ELSE d

\* the scene clock moves on by delta; a delayed call that has come due runs
TimerFired(p, now) ==
    IF p.invulnerabilityTimer # NoTimer /\ now >= p.invulnerabilityTimer
    THEN [p EXCEPT !.isInvulnerable = FALSE, !.invulnerabilityTimer = NoTimer]
    ELSE p

Tick(delta, limit) ==
    /\ time + delta <= limit
    /\ time' = time + delta
    /\ player' = TimerFired(player, time + delta)
    /\ call' = Called("tick", <<delta>>)
    /\ UNCHANGED <<generatedRowsMaxY, rowColliders, rowVisuals, rowColliderGroup,
                   rowVisualsGroup, spikesGroup, enemiesGroup, bouldersGroup,
                   coinsGroup, ret, notified, particles, damageLog, clearedRows,
                   visited, visitLog, clearLog, columns, registry, emitted,
                   playerClears>>

(***************************************************************************)
(* SpecDig: the player digs through the initial chunk, frame by frame.     *)
(***************************************************************************)
FrameDelta == 50       \* milliseconds between two frames
MaxDigTime == 400      \* the scene clock stops here

\* body.bottom when the player stands on the top of the platform row, of the
\* row under it, and of a row of the clear zone
DigBottoms == {initialPlatformRows * TILE_SIZE, (initialPlatformRows + 1) * TILE_SIZE,
               TILE_SIZE}
DigCursors == {<<FALSE, FALSE, TRUE>>, <<TRUE, FALSE, FALSE>>, <<FALSE, TRUE, TRUE>>}

DoChunkForDig ==
    /\ rowColliders = <<>>
    /\ Commit(InitialChunk(World, {}), Called("generateInitialChunk", <<>>))

DoPlayerUpdate ==
    \E cursors \in DigCursors, grounded \in BOOLEAN, bottom \in DigBottoms,
       walled \in BOOLEAN :
        CommitScene(PlayerUpdate(Scene, cursors, grounded, bottom, walled),
                    Called("update", <<cursors, grounded, bottom, walled>>))

DoFrame == Tick(FrameDelta, MaxDigTime)

NextDig ==
    \/ DoChunkForDig
    \/ DoPlayerUpdate
    \/ DoFrame

SpecDig == Init /\ [][NextDig]_vars

\* C33: an update of the player calls clearCurrentRow only when the player is
\* active, the up key is down, the body is grounded and the scene time is
\* strictly greater than lastDigTime + digCooldown; such an attempt makes
\* exactly one clearCurrentRow call, for the trigger body.bottom + 1, and sets
\* lastDigTime to the scene time whether or not a row was removed; any other
\* update calls nothing and leaves lastDigTime and the terrain alone.  So any
\* two clear calls of the player are more than digCooldown (150 ms) apart.
C33_DigRateLimit ==
    [][call'.op = "update" =>
         LET up == call'.arg[1][3]
             grounded == call'.arg[2]
             bottom == call'.arg[3]
             accepted == /\ player.active /\ up /\ grounded
                         /\ time > player.lastDigTime + 150
         IN  /\ accepted =>
                   /\ clearLog' = <<targetTileY(bottom + 1)>>
                   /\ ret' = (targetTileY(bottom + 1) \in DOMAIN rowColliders)
                   /\ player'.lastDigTime = time
                   /\ playerClears' = playerClears \cup {time}
                   /\ \A t \in playerClears : time - t > 150
             /\ ~accepted =>
                   /\ clearLog' = <<>>
                   /\ player'.lastDigTime = player.lastDigTime
                   /\ playerClears' = playerClears
                   /\ rowColliders' = rowColliders
                   /\ clearedRows' = clearedRows]_vars

\* the player has dug twice: a row went at an earlier attempt, the latest one
\* found no row under the feet and still counted
C33_Witness ==
    /\ call.op = "update"
    /\ Cardinality(playerClears) >= 2
    /\ time \in playerClears
    /\ clearLog # <<>>
    /\ ~ret
    /\ clearedRows # {}
    /\ player.lastDigTime = time

(***************************************************************************)
(* SpecContact: the player among an enemy and a boulder.  Which side the   *)
(* other body is on, whether the player is coming down on it, and what the *)
(* boulder says of itself are physics readings: inputs of the contact.     *)
(***************************************************************************)
\* handleEnemyCollision(enemy) on enemiesGroup[i]; left is this.x < enemy.x,
\* stomping is velocity.y > 0 && playerBody.bottom <= enemyBody.top + 8
HandleEnemyCollision(g, i, stomping, left) ==
    LET enemy == g.w.enemiesGroup[i]
        killed == [g EXCEPT !.w.enemiesGroup[i] = TakeDamage(enemy, 999),
                            !.w.damageLog = Append(@, Hurt("enemy", i, 999))]
    IN  IF ~enemy.active THEN [g EXCEPT !.p.ret = FALSE]
        ELSE IF stomping
        THEN [killed EXCEPT !.p.velocity[2] = bounceVelocity,
                            !.r.coins = @ + 5,
                            !.r.totalCoinsCollected = @ + 5,
                            !.e = Append(@, "stats-changed"),
                            !.p.ret = TRUE]
        ELSE IF ~g.p.isInvulnerable
        THEN LET d == PlayerTakeDamage(g, 1)
                 survived == d.p.ret
                 k == [d EXCEPT !.w.enemiesGroup[i] = TakeDamage(enemy, 999),
                                !.w.damageLog = Append(@, Hurt("enemy", i, 999))]
             IN  IF survived
                 THEN [k EXCEPT !.p.velocity = <<IF left THEN -150 ELSE 150, -100>>,
                                !.p.ret = TRUE]
                 ELSE [k EXCEPT !.p.ret = TRUE]
        ELSE [g EXCEPT !.p.ret = FALSE]

\* Game.handlePlayerEnemyCollision: both objects must be active
PlayerEnemyCollision(g, i, stomping, left) ==
    IF ~g.p.active \/ ~g.w.enemiesGroup[i].active THEN g
    ELSE HandleEnemyCollision(g, i, stomping, left)

\* handleBoulderCollision(obstacle) on bouldersGroup[i]; how is what the
\* bodies say: "landing" (isLandingOnTop), "pushing" (isPushingBoulder),
\* "dangerous" (obstacle.isDangerous(true)) or "slow" (none of them, the
\* boulder at rest).  this.body is never null while the sprite exists.
HandleBoulderCollision(g, i, how, left) ==
    LET rec == g.p.recentBoulderCollisions
        lastCollisionTime == IF i \in DOMAIN rec THEN rec[i] ELSE 0
        m == [g EXCEPT !.p.recentBoulderCollisions = Put(rec, i, time)]
    IN  IF ~g.w.bouldersGroup[i].active \/ g.p.isInvulnerable THEN g
        ELSE IF time - lastCollisionTime < boulderCollisionCooldown THEN g
        ELSE IF how = "landing" THEN [m EXCEPT !.p.velocity[2] = 0]
        ELSE IF how = "pushing" THEN m
        ELSE IF how = "dangerous"
        THEN [PlayerTakeDamage(m, 1)
                 EXCEPT !.p.velocity = <<IF left THEN -120 ELSE 120, -100>>]
        ELSE LET pushForce == Max(15, (Abs(g.p.velocity[1]) * 4) \div 10)
             IN  [m EXCEPT !.p.velocity[1] = IF left THEN -pushForce ELSE pushForce]

\* Game.handlePlayerBoulderCollision: both objects must be active
PlayerBoulderCollision(g, i, how, left) ==
    IF ~g.p.active \/ ~g.w.bouldersGroup[i].active THEN g
    ELSE HandleBoulderCollision(g, i, how, left)


ContactDelta == 250      \* milliseconds between two looks at the scene
MaxContactTime == 750    \* the scene clock stops here

ContactPack == {<<10, MidCol - 1, "enemy">>, <<10, MidCol + 1, "boulder">>,
                <<11, MidCol - 1, "enemy">>}
DamageAmounts == {1, 2}
BoulderContacts == {"landing", "pushing", "dangerous", "slow"}

DoChunkForContact ==
    /\ rowColliders = <<>>
    /\ Commit(InitialChunk(World, ContactPack), Called("generateInitialChunk", <<>>))

DoPlayerTakeDamage ==
    \E amount \in DamageAmounts :
        CommitScene(PlayerTakeDamage(Scene, amount), Called("takeDamage", <<amount>>))

DoEnemyContact ==
    \E i \in 1..Len(enemiesGroup), stomping \in BOOLEAN, left \in BOOLEAN :
        CommitScene(PlayerEnemyCollision(Scene, i, stomping, left),
                    Called("handlePlayerEnemyCollision", <<i, stomping, left>>))

DoBoulderContact ==
    \E i \in 1..Len(bouldersGroup), how \in BoulderContacts, left \in BOOLEAN :
        CommitScene(PlayerBoulderCollision(Scene, i, how, left),
                    Called("handlePlayerBoulderCollision", <<i, how, left>>))

\* a frame with no key down, the player standing on the platform row
DoPlayerStands ==
    CommitScene(PlayerUpdate(Scene, <<FALSE, FALSE, FALSE>>, TRUE,
                             initialPlatformRows * TILE_SIZE, FALSE),
                Called("update", <<<<FALSE, FALSE, FALSE>>, TRUE,
                                   initialPlatformRows * TILE_SIZE, FALSE>>))

DoWait == Tick(ContactDelta, MaxContactTime)

NextContact ==
    \/ DoChunkForContact
    \/ DoPlayerTakeDamage
    \/ DoEnemyContact
    \/ DoBoulderContact
    \/ DoPlayerStands
    \/ DoWait

SpecContact == Init /\ [][NextContact]_vars

Emits(log, event) == \E k \in 1..Len(log) : log[k] = event
PlayerCall(c) ==
    c.op \in {"takeDamage", "handlePlayerEnemyCollision", "handlePlayerBoulderCollision"}
\* the amount of the takeDamage call a player call makes, if it makes one
AmountOf(c) == IF c.op = "takeDamage" THEN c.arg[1] ELSE 1

\* C34: the lives never go below 0.  A takeDamage that is let through (the
\* player not invulnerable) sets lives to max(0, lives - amount) and emits
\* 'update-stats' and 'player-damaged'; 'player-died' is emitted and the
\* player deactivated exactly when the new lives value is 0; otherwise the
\* player becomes invulnerable with the timer due invulnerabilityDuration
\* (500 ms) later, and stays invulnerable exactly until the timer fires.
C34_LivesAndDeath ==
    [][/\ registry'.lives >= 0
       /\ (call'.op = "takeDamage" /\ ~player.isInvulnerable) => Emits(emitted', "update-stats")
       /\ (PlayerCall(call') /\ Emits(emitted', "update-stats")) =>
             LET after == registry.lives - AmountOf(call')
             IN  /\ ~player.isInvulnerable
                 /\ registry'.lives = (IF after < 0 THEN 0 ELSE after)
                 /\ Emits(emitted', "player-damaged")
                 /\ Emits(emitted', "player-died") <=> (registry'.lives = 0)
                 /\ player'.active <=> (registry'.lives > 0)
                 /\ (registry'.lives > 0) =>
                       /\ player'.isInvulnerable
                       /\ player'.invulnerabilityTimer = time + 500
       /\ (PlayerCall(call') /\ ~Emits(emitted', "update-stats")) =>
             /\ registry'.lives = registry.lives
             /\ player'.active = player.active
             /\ ~Emits(emitted', "player-died")
       /\ player.isInvulnerable =>
             (player'.isInvulnerable <=> time' < player.invulnerabilityTimer)]_vars

\* the player has survived a first damage, seen the invulnerability run out,
\* and died of a second one
C34_Witness ==
    /\ call.op = "takeDamage"
    /\ registry.lives = 0
    /\ ~player.active
    /\ ~player.isInvulnerable
    /\ player.invulnerabilityTimer = NoTimer
    /\ Emits(emitted, "player-died")
    /\ time >= 500

\* C35: while the player is invulnerable, takeDamage returns true and changes
\* nothing (lives, events, timer and every other field of the player as they
\* were), and a non-stomping enemy contact or a boulder contact neither hurts
\* the player nor damages the enemy or the boulder.
C35_InvulnerableIsUntouched ==
    [][(player.isInvulnerable /\ PlayerCall(call')
          /\ (call'.op = "handlePlayerEnemyCollision" => ~call'.arg[2])) =>
         /\ registry' = registry
         /\ emitted' = <<>>
         /\ damageLog' = <<>>
         /\ enemiesGroup' = enemiesGroup
         /\ bouldersGroup' = bouldersGroup
         /\ [player' EXCEPT !.ret = FALSE] = [player EXCEPT !.ret = FALSE]
         /\ call'.op = "takeDamage" => player'.ret
         /\ (call'.op = "handlePlayerEnemyCollision" /\ enemiesGroup[call'.arg[1]].active)
               => ~player'.ret]_vars

\* an invulnerable player has run into a live enemy, and both are as they were
C35_Witness ==
    /\ call.op = "handlePlayerEnemyCollision"
    /\ ~call.arg[2]
    /\ player.isInvulnerable
    /\ player.active
    /\ enemiesGroup[call.arg[1]].active
    /\ ~player.ret
    /\ emitted = <<>>
    /\ registry.lives \in 1..2

(***************************************************************************)
(* SpecRoundTrip: explosions all over the initial chunk, above the world   *)
(* and under the generated rows; every row the resolver tests is handed to *)
(* the clearer through its trigger value.                                  *)
(***************************************************************************)
RoundTripCentreRows == {-2, initialPlatformRows, 14, initialWorldDepthRows + 7}
RoundTripBlasts ==
    {<<mapWidthPixels \div 2, r * TILE_SIZE + o, radius>> :
        r \in RoundTripCentreRows, o \in {0, TILE_SIZE \div 2},
        radius \in {TILE_SIZE \div 2, TILE_SIZE + TILE_SIZE \div 2}}

DoChunkForBlasts ==
    /\ rowColliders = <<>>
    /\ Commit(InitialChunk(World, {}), Called("generateInitialChunk", <<>>))

DoExplodeAnywhere ==
    \E b \in RoundTripBlasts :
        Commit(HandleCreateExplosion(World, b[1], b[2], b[3]),
               Called("handleCreateExplosion", b))

NextRoundTrip ==
    \/ DoChunkForBlasts
    \/ DoExplodeAnywhere

SpecRoundTrip == Init /\ [][NextRoundTrip]_vars

\* C36: for every row index t the explosion resolver tests, the trigger it
\* passes (t * TILE_SIZE - TILE_SIZE / 2) is mapped by the clearer's target
\* computation back to t: the clearer runs for the rows that passed the
\* resolver's test, one call each, and every row that goes is one of them.
C36_TriggerRoundTrip ==
    [][ExplosionCall(call') =>
         /\ \A t \in (Floor(call'.arg[2], TILE_SIZE) - 3)..(Floor(call'.arg[2], TILE_SIZE) + 3) :
               targetTileY(t * TILE_SIZE - TILE_SIZE \div 2) = t
         /\ \A k \in 1..Len(clearLog') : clearLog'[k] \in SelectedRows(call')
         /\ Len(clearLog') = Cardinality(SelectedRows(call'))
         /\ Stored(rowColliders) \ Stored(rowColliders') \subseteq SelectedRows(call')
         /\ \A k \in 1..Len(notified') : notified'[k] \in SelectedRows(call')]_vars

\* an explosion centred on the platform row tested rows 4, 5 and 6: the
\* clearer ran for each of them and removed the two that were stored
C36_Witness ==
    /\ ExplosionCall(call)
    /\ call.arg[2] = initialPlatformRows * TILE_SIZE + TILE_SIZE \div 2
    /\ clearLog = <<initialPlatformRows - 1, initialPlatformRows, initialPlatformRows + 1>>
    /\ notified = <<initialPlatformRows, initialPlatformRows + 1>>

====
